---- MODULE Spec2Model ----
(***************************************************************************)
(* A model of the PE rule-out serving pipeline of                          *)
(* backend/pe_model/serve_model.py: the module globals that hold the model *)
(* artifact, load_pe_model and its fallback, the derived-feature engine,   *)
(* the missingness policy, the feature-vector builder, the prediction      *)
(* call and the decision interpreter.                                      *)
(*                                                                         *)
(* Numbers.  A probability or threshold is an integer count of 1e-5, so    *)
(* 1.0 is Unit, 0.08 is 8000 and round(p, 4) rounds to a multiple of 10.   *)
(* A feature value is a tagged record (see "Python values").               *)
(***************************************************************************)
EXTENDS Integers, Sequences, FiniteSets, TLC

\* ------------------------------------------------------------- bounds
\* How many times load_pe_model may run in one behaviour.
MaxLoads == 2

\* ------------------------------------------------------ Python values
\* None, float('nan'), a number v/d (d > 0), a string float() parses
\* ("65"), and a non-empty string float() rejects ("M", "abc").
None == [t |-> "none", v |-> 0, d |-> 1]
NaN == [t |-> "nan", v |-> 0, d |-> 1]
Num(n) == [t |-> "num", v |-> n, d |-> 1]
Ratio(n, m) == [t |-> "num", v |-> n, d |-> m]
NumStr(n) == [t |-> "numstr", v |-> n, d |-> 1]
Str == [t |-> "str", v |-> 0, d |-> 1]

\* `value is None or (isinstance(value, float) and np.isnan(value))`
is_missing(value) == value = None \/ value.t = "nan"

\* bool(x)
Truthy(x) ==
  CASE x.t = "none" -> FALSE
    [] x.t = "nan" -> TRUE
    [] x.t = "num" -> x.v # 0
    [] OTHER -> TRUE

\* `x or dflt`
PyOr(x, dflt) == IF Truthy(x) THEN x ELSE dflt

\* A str operand of <, >, >=, + or / with a number raises TypeError.
IsText(x) == x.t \in {"str", "numstr"}

\* x > n, x >= n, x < n for a number or NaN x (a comparison with NaN is False).
Gt(x, n) == x.t = "num" /\ x.v > n * x.d
Ge(x, n) == x.t = "num" /\ x.v >= n * x.d
Lt(x, n) == x.t = "num" /\ x.v < n * x.d

\* x + y and x / y on numbers and NaN (y > 0 where / is used).
Add(x, y) ==
  IF x.t = "nan" \/ y.t = "nan" THEN NaN
  ELSE Ratio(x.v * y.d + y.v * x.d, x.d * y.d)
Div(x, y) ==
  IF x.t = "nan" \/ y.t = "nan" THEN NaN
  ELSE Ratio(x.v * y.d, x.d * y.v)

\* dict.get(k) and dict.get(k, dflt)
Get(m, k) == IF k \in DOMAIN m THEN m[k] ELSE None
GetD(m, k, dflt) == IF k \in DOMAIN m THEN m[k] ELSE dflt

\* m[k] = x on a dict
Put(m, k, x) == [j \in DOMAIN m \cup {k} |-> IF j = k THEN x ELSE m[j]]

\* The dict with no key.
EmptyDict == [k \in {} |-> None]

\* The elements of a sequence.
Range(s) == {s[i] : i \in 1..Len(s)}

\* ----------------------------------------------- feature configuration
REQUIRED_FEATURES ==
  <<"age", "triage_hr", "triage_rr", "triage_o2sat", "triage_sbp", "triage_dbp">>

MISSINGNESS_FEATURES ==
  <<"wbc", "hemoglobin", "hematocrit", "platelet",
    "creatinine", "bun", "glucose", "sodium", "potassium",
    "lactate", "troponin", "bnp", "d_dimer",
    "po2", "pco2", "ph", "base_excess",
    "hr_mean", "hr_max", "hr_min", "hr_std",
    "sbp_mean", "sbp_max", "sbp_min", "sbp_std",
    "dbp_mean", "dbp_max", "dbp_min", "dbp_std",
    "rr_mean", "rr_max", "rr_min", "rr_std",
    "spo2_mean", "spo2_max", "spo2_min", "spo2_std",
    "temp_mean", "temp_max", "temp_min", "temp_std">>

\* f'{feature}_missing'
missing_col(feature) == feature \o "_missing"

\* 1.0 as a probability.
Unit == 100 * 1000

\* `_THRESHOLD or 0.10`, and _create_dummy_model's _THRESHOLD = 0.10.
DefaultThreshold == 10000

\* ------------------------------------------------------------- state
\* The module globals of serve_model.py (all None after import), the
\* caller's patient feature dict, the outcome of the last call, and the
\* number of load_pe_model calls so far.
VARIABLES _MODEL, _SCALER, _FEATURE_COLS, _THRESHOLD, _FEATURE_METADATA,
          _SCALER_MEAN, _SCALER_SCALE, features, result, loads,
          sessions, auth_progress, now, lists

globals == <<_MODEL, _SCALER, _FEATURE_COLS, _THRESHOLD, _FEATURE_METADATA,
             _SCALER_MEAN, _SCALER_SCALE>>
\* The state of main.py: the session store, the auth-in-progress record and
\* the wall clock (datetime.now().timestamp(), in seconds).
web == <<sessions, auth_progress, now>>
vars == <<_MODEL, _SCALER, _FEATURE_COLS, _THRESHOLD, _FEATURE_METADATA,
          _SCALER_MEAN, _SCALER_SCALE, features, result, loads,
          sessions, auth_progress, now, lists>>

\* Optional values of the globals: a column list, a number, a statistics
\* vector.  isNone marks Python's None.
NoCols == [isNone |-> TRUE, val |-> <<>>]
Cols(s) == [isNone |-> FALSE, val |-> s]
NoNumber == [isNone |-> TRUE, val |-> 0]
Number(n) == [isNone |-> FALSE, val |-> n]
NoStats == [isNone |-> TRUE, val |-> <<>>]
Stats(s) == [isNone |-> FALSE, val |-> s]

\* A scaler object: which of the attributes mean_ and scale_ it has, their
\* values, and whether its transform() works in this installation.
NoScaler ==
  [isNone |-> TRUE, has_mean |-> FALSE, mean_ |-> NoStats,
   has_scale |-> FALSE, scale_ |-> NoStats, transform |-> "raises"]
Scaler(hm, m, hs, s, tr) ==
  [isNone |-> FALSE, has_mean |-> hm, mean_ |-> m,
   has_scale |-> hs, scale_ |-> s, transform |-> tr]

\* feature_metadata: None, or a dict with some keys and, under
\* 'test_metrics', the stored performance metrics.
NoMetrics == [k \in {} |-> 0]
NoMetadata == [isNone |-> TRUE, keys |-> {}, test_metrics |-> NoMetrics]
Metadata(ks, tm) == [isNone |-> FALSE, keys |-> ks, test_metrics |-> tm]

\* The globals as one record.
G ==
  [MODEL |-> _MODEL, SCALER |-> _SCALER, FEATURE_COLS |-> _FEATURE_COLS,
   THRESHOLD |-> _THRESHOLD, FEATURE_METADATA |-> _FEATURE_METADATA,
   SCALER_MEAN |-> _SCALER_MEAN, SCALER_SCALE |-> _SCALER_SCALE]

\* The globals right after import.
Unloaded ==
  [MODEL |-> "None", SCALER |-> NoScaler, FEATURE_COLS |-> NoCols,
   THRESHOLD |-> NoNumber, FEATURE_METADATA |-> NoMetadata,
   SCALER_MEAN |-> NoStats, SCALER_SCALE |-> NoStats]

\* The list objects of serve_model.py as they stand: the two configuration
\* lists, the latest copy handed to a caller, and whether _FEATURE_COLS is
\* the REQUIRED_FEATURES object itself (as _create_dummy_model leaves it).
ListsAtImport ==
  [REQUIRED_FEATURES |-> REQUIRED_FEATURES,
   MISSINGNESS_FEATURES |-> MISSINGNESS_FEATURES,
   copy |-> <<>>, cols_shared |-> FALSE, edits |-> 0]

\* ------------------------------------------------------ main.py at import
\* The `state` of an OAuth round trip: None, "", the f"state_{timestamp}" a
\* /launch made at time t, or a text no /launch made.
NoState == [kind |-> "none", t |-> 0]
EmptyState == [kind |-> "empty", t |-> 0]
Issued(t) == [kind |-> "launch", t |-> t]
Forged == [kind |-> "forged", t |-> 0]

\* sessions = {} (line 59) and auth_progress (lines 72-76) as the module
\* leaves them at import.
IdleAuth == [in_progress |-> FALSE, started_at |-> NoNumber, state |-> NoState]

\* The clock advances in steps of TickStep seconds, at most MaxTicks times.
TickStep == 90
MaxTicks == 2

WebIdle ==
  /\ lists = ListsAtImport
  /\ sessions = <<>>
  /\ auth_progress = IdleAuth
  /\ now = TickStep

\* ------------------------------------------------- the artifact on disk
\* An entry of the pickled dict: absent, or present with a value that may
\* itself be None.
Absent(none) == [present |-> FALSE, val |-> none]
Present(x) == [present |-> TRUE, val |-> x]

\* model_data.get(key, default)
EntryGet(e, dflt) == IF e.present THEN e.val ELSE dflt

\* Two schemas of a trained artifact (distinct column names, as a training
\* frame's columns are): raw, missingness-indicator, derived, non-numeric
\* and unknown columns.
ColsA == <<"age", "d_dimer", "d_dimer_missing", "shock_index">>
ColsB == <<"triage_hr", "gender", "perc_score", "unknown_col", "wbc", "wbc_missing">>

\* The statistics a StandardScaler fitted on n columns holds (scale_ > 0).
MeanOf(n) == [i \in 1..n |-> 10 * i]
ScaleOf(n) == [i \in 1..n |-> i + 1]

\* StandardScaler; a scaler with scale_ but no mean_ (MinMaxScaler), whose
\* transform works or raises; StandardScaler(with_mean=False): mean_ is None.
StandardScaler(n) == Scaler(TRUE, Stats(MeanOf(n)), TRUE, Stats(ScaleOf(n)), "ok")
MinMaxScaler(n, tr) == Scaler(FALSE, NoStats, TRUE, Stats(ScaleOf(n)), tr)
NoMeanScaler(n) == Scaler(TRUE, NoStats, TRUE, Stats(ScaleOf(n)), "ok")

\* Stored test metrics of a trained artifact, in units of 1e-5.
RealMetrics ==
  [k \in {"Sensitivity", "NPV", "Safe_Rule_Out_Rate"} |->
     CASE k = "Sensitivity" -> 97400 [] k = "NPV" -> 98950 [] OTHER -> 5800]
RealMetadata == Metadata({"test_metrics"}, RealMetrics)

\* The pickled dict.
ModelData(model, scaler, cols, thr, meta) ==
  [model |-> model, scaler |-> scaler, feature_cols |-> cols,
   threshold |-> thr, feature_metadata |-> meta]

\* A well-formed artifact on schema ColsA, and the same with one entry
\* changed at a time; then artifacts on schema ColsB.
BaseArtifact ==
  ModelData(Present("Real"), Present(StandardScaler(4)), Present(Cols(ColsA)),
            Present(Number(8000)), Present(RealMetadata))

Artifacts ==
  {BaseArtifact}
  \cup {[BaseArtifact EXCEPT !.model = m] :
          m \in {Absent("None"), Present("None")}}
  \cup {[BaseArtifact EXCEPT !.scaler = s] :
          s \in {Absent(NoScaler), Present(NoScaler), Present(MinMaxScaler(4, "ok")),
                 Present(MinMaxScaler(4, "raises")), Present(NoMeanScaler(4))}}
  \cup {[BaseArtifact EXCEPT !.feature_cols = Present(NoCols)],
        [BaseArtifact EXCEPT !.feature_cols = Absent(NoCols),
                             !.scaler = Present(NoScaler)]}
  \cup {[BaseArtifact EXCEPT !.threshold = t] :
          t \in {Absent(NoNumber), Present(NoNumber), Present(Number(0)),
                 Present(Number(Unit))}}
  \cup {[BaseArtifact EXCEPT !.feature_metadata = m] :
          m \in {Absent(NoMetadata), Present(Metadata({}, NoMetrics))}}
  \cup {ModelData(Present("Real"), Present(StandardScaler(6)), Present(Cols(ColsB)),
                  Present(Number(8000)), Present(RealMetadata)),
        ModelData(Present("Real"), Absent(NoScaler), Present(Cols(ColsB)),
                  Absent(NoNumber), Absent(NoMetadata))}

\* What load_pe_model finds: no file at any of the four paths, a file
\* joblib.load cannot read, or a file holding a dict.
DiskStates ==
  {[exists |-> FALSE, loadable |-> FALSE, data |-> BaseArtifact],
   [exists |-> TRUE, loadable |-> FALSE, data |-> BaseArtifact]}
  \cup {[exists |-> TRUE, loadable |-> TRUE, data |-> a] : a \in Artifacts}

\* ------------------------------------------------------ load_pe_model
\* _create_dummy_model: its `global` statement names neither _SCALER_MEAN
\* nor _SCALER_SCALE, and it assigns neither.
DummyMetadata == Metadata({"required_features", "missingness_features"}, NoMetrics)

_create_dummy_model(g) ==
  [g EXCEPT !.FEATURE_COLS = Cols(REQUIRED_FEATURES),
            !.THRESHOLD = Number(DefaultThreshold),
            !.SCALER = NoScaler,
            !.FEATURE_METADATA = DummyMetadata,
            !.MODEL = "DummyModel"]

\* Lines 104-108: the five assignments from the dict.
AssignFromData(g, md) ==
  [g EXCEPT !.MODEL = md.model.val,
            !.SCALER = EntryGet(md.scaler, NoScaler),
            !.FEATURE_COLS = EntryGet(md.feature_cols, Cols(<<>>)),
            !.THRESHOLD = EntryGet(md.threshold, Number(DefaultThreshold)),
            !.FEATURE_METADATA = EntryGet(md.feature_metadata, Metadata({}, NoMetrics))]

\* Lines 111-116: the raw scaler statistics.
ExtractScalerStats(g) ==
  IF g.SCALER.isNone THEN g
  ELSE [g EXCEPT !.SCALER_MEAN = IF g.SCALER.has_mean THEN g.SCALER.mean_ ELSE @,
                 !.SCALER_SCALE = IF g.SCALER.has_scale THEN g.SCALER.scale_ ELSE @]

\* Lines 123-124: len(_FEATURE_COLS) and f"{_THRESHOLD:.4f}" raise TypeError
\* on None.
LoggingRaises(g) == g.FEATURE_COLS.isNone \/ g.THRESHOLD.isNone

\* The try block of lines 100-125: the globals it leaves and the exception
\* it raises ("" for none).  joblib.load fails before any assignment,
\* model_data['model'] raises KeyError before any assignment, the logging
\* lines raise after all of them.
TryLoad(g, disk) ==
  IF ~disk.loadable THEN [g |-> g, exc |-> "Exception"]
  ELSE IF ~disk.data.model.present THEN [g |-> g, exc |-> "KeyError"]
  ELSE LET g2 == ExtractScalerStats(AssignFromData(g, disk.data))
       IN [g |-> g2, exc |-> IF LoggingRaises(g2) THEN "TypeError" ELSE ""]

\* load_pe_model() with `disk` on disk: the globals it leaves and the
\* exception that leaves it.  No file: the dummy model.  `except Exception`
\* swallows what the try block raises and creates the dummy model.
load_pe_model(g, disk) ==
  IF ~disk.exists THEN [g |-> _create_dummy_model(g), exc |-> ""]
  ELSE IF TryLoad(g, disk).exc # ""
  THEN [g |-> _create_dummy_model(TryLoad(g, disk).g), exc |-> ""]
  ELSE TryLoad(g, disk)

\* ---------------------------------------------- compute_derived_features
\* The raw values with their defaults (lines 193-199).
d_age(f) == PyOr(GetD(f, "age", Num(50)), Num(50))
d_hr(f) == PyOr(GetD(f, "triage_hr", Num(80)), Num(80))
d_hr_mean(f) == PyOr(GetD(f, "hr_mean", d_hr(f)), d_hr(f))
d_sbp(f) == PyOr(GetD(f, "triage_sbp", Num(120)), Num(120))
d_sbp_mean(f) == PyOr(GetD(f, "sbp_mean", d_sbp(f)), d_sbp(f))
d_o2sat(f) == PyOr(GetD(f, "triage_o2sat", Num(98)), Num(98))
d_spo2_min(f) == PyOr(GetD(f, "spo2_min", d_o2sat(f)), d_o2sat(f))

\* `features.get(k, 0) or 0`
Flag(f, k) == PyOr(GetD(f, k, Num(0)), Num(0))

\* sum(features.get(k, 0) or 0 for k in ks), from the int 0.
RECURSIVE SumFlags(_, _, _)
SumFlags(f, ks, i) ==
  IF i > Len(ks) THEN Num(0) ELSE Add(Flag(f, ks[i]), SumFlags(f, ks, i + 1))

vte_factors ==
  <<"prior_pe_diagnosis", "prior_dvt_diagnosis", "prior_cancer", "prior_thrombophilia">>
mimic_factors ==
  <<"prior_mi", "prior_angina", "prior_heart_failure",
    "prior_pneumonia", "prior_asthma", "prior_copd">>
comorbidities ==
  <<"prior_hypertension", "prior_diabetes", "prior_heart_failure",
    "prior_copd", "prior_ckd", "prior_cancer">>

AnyTextFlag(f, ks) == \E i \in 1..Len(ks) : IsText(Flag(f, ks[i]))

\* The derived values, in the order the code computes them.
\* Mutant of wells_tachycardia: the monitored mean is not looked at.
wells_tachycardia_triage_only(f) == IF Gt(d_hr(f), 100) THEN 1 ELSE 0

wells_tachycardia(f) ==
  IF Gt(d_hr(f), 100) \/ Gt(d_hr_mean(f), 100) THEN 1 ELSE 0
wells_score(f) ==
  wells_tachycardia(f)
    + (IF Truthy(Get(f, "prior_pe_diagnosis")) THEN 3 ELSE 0)
    + (IF Truthy(Get(f, "prior_dvt_diagnosis")) THEN 3 ELSE 0)
perc_age_50(f) == IF Ge(d_age(f), 50) THEN 1 ELSE 0
perc_hypoxia(f) ==
  IF Lt(d_o2sat(f), 95) \/ Lt(d_spo2_min(f), 95) THEN 1 ELSE 0
perc_score(f) ==
  Add(Num(perc_age_50(f) + wells_tachycardia(f) + perc_hypoxia(f)),
      Flag(f, "cc_leg_pain_swelling"))
shock_index(f) ==
  IF Gt(d_sbp_mean(f), 0) THEN Div(d_hr_mean(f), d_sbp_mean(f)) ELSE Num(0)
\* shock_index > 0.7
shock_index_elevated(f) ==
  IF shock_index(f).t = "num" /\ 10 * shock_index(f).v > 7 * shock_index(f).d
  THEN 1 ELSE 0

\* A str where the code compares or adds numbers raises TypeError: line 202
\* (hr, then hr_mean unless `or` short-circuits), 217 (age), 219 (o2sat,
\* then spo2_min likewise), 222 (the leg-swelling flag in sum), 232
\* (sbp_mean), 233 (hr_mean, reached when sbp_mean > 0), 243, 249 and 254
\* (the history flags in sum).
derived_raises(f) ==
  \/ IsText(d_hr(f))
  \/ (~Gt(d_hr(f), 100) /\ IsText(d_hr_mean(f)))
  \/ IsText(d_age(f))
  \/ IsText(d_o2sat(f))
  \/ (~Lt(d_o2sat(f), 95) /\ IsText(d_spo2_min(f)))
  \/ IsText(Flag(f, "cc_leg_pain_swelling"))
  \/ IsText(d_sbp_mean(f))
  \/ (Gt(d_sbp_mean(f), 0) /\ IsText(d_hr_mean(f)))
  \/ AnyTextFlag(f, vte_factors)
  \/ AnyTextFlag(f, mimic_factors)
  \/ AnyTextFlag(f, comorbidities)

\* The keys compute_derived_features adds.
DerivedKeys ==
  {"wells_tachycardia", "wells_dvt_signs", "wells_score", "wells_high_risk",
   "perc_age_50", "perc_hr_100", "perc_hypoxia", "perc_leg_swelling",
   "perc_score", "perc_negative", "shock_index", "shock_index_elevated",
   "vte_risk_score", "high_vte_risk", "pe_mimic_score", "comorbidity_burden",
   "prior_pe_with_dyspnea", "cancer_with_dyspnea", "dyspnea_hypoxia"}

DerivedValue(f, k) ==
  CASE k = "wells_tachycardia" -> Num(wells_tachycardia(f))
    [] k = "wells_dvt_signs" -> Flag(f, "cc_leg_pain_swelling")
    [] k = "wells_score" -> Num(wells_score(f))
    [] k = "wells_high_risk" -> Num(IF wells_score(f) >= 4 THEN 1 ELSE 0)
    [] k = "perc_age_50" -> Num(perc_age_50(f))
    [] k = "perc_hr_100" -> Num(wells_tachycardia(f))
    [] k = "perc_hypoxia" -> Num(perc_hypoxia(f))
    [] k = "perc_leg_swelling" -> Flag(f, "cc_leg_pain_swelling")
    [] k = "perc_score" -> perc_score(f)
    [] k = "perc_negative" ->
         Num(IF perc_score(f).t = "num" /\ perc_score(f).v = 0 THEN 1 ELSE 0)
    [] k = "shock_index" -> shock_index(f)
    [] k = "shock_index_elevated" -> Num(shock_index_elevated(f))
    [] k = "vte_risk_score" -> SumFlags(f, vte_factors, 1)
    [] k = "high_vte_risk" ->
         Num(IF Ge(SumFlags(f, vte_factors, 1), 2) THEN 1 ELSE 0)
    [] k = "pe_mimic_score" -> SumFlags(f, mimic_factors, 1)
    [] k = "comorbidity_burden" -> SumFlags(f, comorbidities, 1)
    [] k = "prior_pe_with_dyspnea" ->
         Num(IF Truthy(Get(f, "prior_pe_diagnosis")) /\ Truthy(Get(f, "cc_dyspnea"))
             THEN 1 ELSE 0)
    [] k = "cancer_with_dyspnea" ->
         Num(IF Truthy(Get(f, "prior_cancer")) /\ Truthy(Get(f, "cc_dyspnea"))
             THEN 1 ELSE 0)
    [] OTHER ->
         Num(IF Truthy(Get(f, "cc_dyspnea")) /\ perc_hypoxia(f) = 1 THEN 1 ELSE 0)

\* enhanced = features.copy(), then the derived keys are set on the copy.
\* Defined where derived_raises(f) is false.
\* Mutant of compute_derived_features: the defaults are written to the copy.
compute_derived_features_writes_defaults(f) ==
  [k \in DOMAIN f \cup DerivedKeys \cup {"age", "triage_hr"} |->
     IF k \in DerivedKeys THEN DerivedValue(f, k)
     ELSE IF k = "age" THEN d_age(f)
     ELSE IF k = "triage_hr" THEN d_hr(f)
     ELSE f[k]]

compute_derived_features(f) ==
  [k \in DOMAIN f \cup DerivedKeys |->
     IF k \in DerivedKeys THEN DerivedValue(f, k) ELSE f[k]]

\* ------------------------------------------- apply_missingness_features
\* enhanced = features.copy(), then for each optional feature, read from the
\* argument: missing (None, NaN or no key) writes <feature>_missing = 1 and
\* <feature> = 0 to the copy, present writes <feature>_missing = 0.  No
\* optional feature is named as another's indicator, so the writes of the
\* loop do not overlap and its result is this dict.
OptionalFeatures == Range(MISSINGNESS_FEATURES)
MissingCols == {missing_col(x) : x \in OptionalFeatures}
FeatureOfCol == [col \in MissingCols |-> CHOOSE x \in OptionalFeatures : missing_col(x) = col]

\* Mutant of apply_missingness_features: the indicator is set, the value is
\* not filled with 0.
apply_missingness_features_nofill(f) ==
  [k \in DOMAIN f \cup MissingCols |->
     IF k \in MissingCols
     THEN (IF is_missing(Get(f, FeatureOfCol[k])) THEN Num(1) ELSE Num(0))
     ELSE f[k]]

apply_missingness_features(f) ==
  [k \in DOMAIN f \cup MissingCols \cup {x \in OptionalFeatures : is_missing(Get(f, x))} |->
     IF k \in MissingCols
     THEN (IF is_missing(Get(f, FeatureOfCol[k])) THEN Num(1) ELSE Num(0))
     ELSE IF k \in OptionalFeatures /\ is_missing(Get(f, k)) THEN Num(0)
     ELSE f[k]]

\* ------------------------------------------- validate_required_features
RECURSIVE ValidateLoop(_, _, _)
ValidateLoop(f, missing, i) ==
  IF i > Len(REQUIRED_FEATURES) THEN missing
  ELSE ValidateLoop(f,
         IF is_missing(Get(f, REQUIRED_FEATURES[i]))
         THEN Append(missing, REQUIRED_FEATURES[i]) ELSE missing,
         i + 1)

\* Mutant of validate_required_features: missing.insert(0, feature).
RECURSIVE ValidateLoopPrepend(_, _, _)
ValidateLoopPrepend(f, missing, i) ==
  IF i > Len(REQUIRED_FEATURES) THEN missing
  ELSE ValidateLoopPrepend(f,
         IF is_missing(Get(f, REQUIRED_FEATURES[i]))
         THEN <<REQUIRED_FEATURES[i]>> \o missing ELSE missing,
         i + 1)
validate_required_features_prepend(f) ==
  [is_valid |-> Len(ValidateLoopPrepend(f, <<>>, 1)) = 0,
   missing |-> ValidateLoopPrepend(f, <<>>, 1)]

\* (is_valid, missing)
validate_required_features(f) ==
  LET missing == ValidateLoop(f, <<>>, 1)
  IN [is_valid |-> Len(missing) = 0, missing |-> missing]

\* ----------------------------------------------- prepare_feature_vector
\* Lines 329-335: float(value), 0 for None and for what float() rejects.
Coerce(value) ==
  CASE value = None -> Num(0)
    [] value.t = "numstr" -> Num(value.v)
    [] value.t = "str" -> Num(0)
    [] OTHER -> value

\* The one-row frame of lines 326-337 over the columns `cols`.
BuildRow(enhanced, cols) == [i \in 1..Len(cols) |-> Coerce(Get(enhanced, cols[i]))]

\* numpy broadcasting of a row of k entries with a vector of n: the width of
\* the result, or -1 when the shapes do not broadcast (ValueError).
Broadcast(k, n) ==
  IF k = n THEN k ELSE IF k = 1 THEN n ELSE IF n = 1 THEN k ELSE -1

\* The width of (df.values - _SCALER_MEAN) / _SCALER_SCALE, or -1.
ScaledWidth(k, mean, scale) ==
  IF Broadcast(k, Len(mean)) = -1 THEN -1
  ELSE Broadcast(Broadcast(k, Len(mean)), Len(scale))

\* (x - m) / s on one entry.
ScaleEntry(x, m, s) ==
  IF x.t = "nan" THEN NaN ELSE Ratio(x.v - m * x.d, x.d * s)

\* Entry j of a broadcast vector.
At(vec, j) == IF Len(vec) = 1 THEN vec[1] ELSE vec[j]

\* An entry as _SCALER.transform returns it: opaque.
Transformed(x) == [t |-> "transformed", v |-> x.v, d |-> x.d]

\* Which branch of lines 340-353 runs.
ScalingBranch(g) ==
  IF ~g.SCALER_MEAN.isNone /\ ~g.SCALER_SCALE.isNone THEN "raw_statistics"
  ELSE IF ~g.SCALER.isNone THEN "scaler_object"
  ELSE "unscaled"

\* "" when prepare_feature_vector returns, else the exception it raises:
\* TypeError from compute_derived_features or from iterating
\* _FEATURE_COLS = None, ValueError from the arithmetic of line 341 or the
\* DataFrame constructor of line 342 when the widths do not fit.
prepare_error(g, f) ==
  IF derived_raises(f) THEN "TypeError"
  ELSE IF g.FEATURE_COLS.isNone THEN "TypeError"
  ELSE IF ScalingBranch(g) = "raw_statistics"
          /\ ScaledWidth(Len(g.FEATURE_COLS.val), g.SCALER_MEAN.val, g.SCALER_SCALE.val)
               # Len(g.FEATURE_COLS.val)
       THEN "ValueError"
  ELSE ""

\* The frame prepare_feature_vector returns (where prepare_error is ""):
\* its column labels and its one row.
prepare_feature_vector(g, f) ==
  LET cols == g.FEATURE_COLS.val
      row == BuildRow(apply_missingness_features(compute_derived_features(f)), cols)
      branch == ScalingBranch(g)
  IN [columns |-> cols,
      values |->
        IF branch = "raw_statistics"
        THEN [j \in 1..Len(cols) |->
                ScaleEntry(row[j], At(g.SCALER_MEAN.val, j), At(g.SCALER_SCALE.val, j))]
        ELSE IF branch = "scaler_object" /\ g.SCALER.transform = "ok"
        THEN [j \in 1..Len(cols) |-> Transformed(row[j])]
        ELSE row,
      scaling |->
        IF branch = "scaler_object"
        THEN (IF g.SCALER.transform = "ok" THEN "transform" ELSE "transform_failed")
        ELSE branch]

\* ------------------------------------------------ DummyModel.predict_proba
\* row.get(name, dflt) on the one row of the frame X.
RowGet(X, name, dflt) ==
  IF \E i \in 1..Len(X.columns) : X.columns[i] = name
  THEN X.values[CHOOSE i \in 1..Len(X.columns) : X.columns[i] = name]
  ELSE Num(dflt)

Min(a, b) == IF a < b THEN a ELSE b

\* The three risk adjustments, in units of 1e-5 (the quotient is cut to the
\* unit): min((age - 50) / 100, 0.15), min((hr - 100) / 150, 0.20),
\* min((95 - o2sat) / 20, 0.30).
AgeRisk(age) ==
  IF Truthy(age) /\ Gt(age, 50)
  THEN Min(((age.v - 50 * age.d) * 1000) \div age.d, 15000) ELSE 0
HrRisk(hr) ==
  IF Truthy(hr) /\ Gt(hr, 100)
  THEN Min(((hr.v - 100 * hr.d) * 2000) \div (3 * hr.d), 20000) ELSE 0
O2Risk(o2sat) ==
  IF Truthy(o2sat) /\ Lt(o2sat, 95)
  THEN Min(((95 * o2sat.d - o2sat.v) * 5000) \div o2sat.d, 30000) ELSE 0

\* prob_pe of the only row: base rate 0.08 plus the adjustments, capped.
DummyModel_predict_proba(X) ==
  Min(8000 + AgeRisk(RowGet(X, "age", 50)) + HrRisk(RowGet(X, "triage_hr", 80))
        + O2Risk(RowGet(X, "triage_o2sat", 98)),
      85000)

\* The trained classifier is opaque: on a frame of its own width it returns
\* some probability; scikit-learn estimators reject a frame with no column.
RealProbs == {3000, 8000, 30000}
RealRaises(X) == Len(X.columns) = 0

\* ---------------------------------------------- predict_pe_probability
\* The outcome of predict_pe_probability(f) when the trained classifier, if
\* asked, answers p: the exception raised ("" for none) and where, the
\* names the error message lists, whether prepare_feature_vector and
\* predict_proba were called, and the value returned.
Outcome(exc, at, missing, prepared, classified, value) ==
  [op |-> "predict_pe_probability", exc |-> exc, at |-> at, missing |-> missing,
   prepare_called |-> prepared, predict_proba_called |-> classified,
   value |-> value]

\* Mutant of predict_pe_probability: the feature vector is built before the
\* required features are validated.
predict_pe_probability_late_check(g, f, p) ==
  LET checked == validate_required_features(f)
      err == prepare_error(g, f)
  IN IF g.MODEL = "None"
     THEN Outcome("RuntimeError", "model_check", <<>>, FALSE, FALSE, 0)
     ELSE IF err # ""
     THEN Outcome(err, "prepare_feature_vector", <<>>, TRUE, FALSE, 0)
     ELSE IF ~checked.is_valid
     THEN Outcome("ValueError", "validation", checked.missing, TRUE, FALSE, 0)
     ELSE Outcome("", "", <<>>, TRUE, TRUE, p)

predict_pe_probability(g, f, p) ==
  LET checked == validate_required_features(f)
      err == prepare_error(g, f)
      X == prepare_feature_vector(g, f)
  IN IF g.MODEL = "None"
     THEN Outcome("RuntimeError", "model_check", <<>>, FALSE, FALSE, 0)
     ELSE IF ~checked.is_valid
     THEN Outcome("ValueError", "validation", checked.missing, FALSE, FALSE, 0)
     ELSE IF err # ""
     THEN Outcome(err, "prepare_feature_vector", <<>>, TRUE, FALSE, 0)
     ELSE IF g.MODEL = "DummyModel"
     THEN Outcome("", "", <<>>, TRUE, TRUE, DummyModel_predict_proba(X))
     ELSE IF RealRaises(X)
     THEN Outcome("ValueError", "predict_proba", <<>>, TRUE, TRUE, 0)
     ELSE Outcome("", "", <<>>, TRUE, TRUE, p)

\* ------------------------------------------------- interpret_pe_result
\* round(x, 4) on a count of 1e-5.  The inputs of the model avoid the ties
\* (x % 10 = 5), whose direction depends on the binary float.
Round4(x) ==
  IF x % 10 < 5 THEN 10 * (x \div 10)
  ELSE IF x % 10 > 5 THEN 10 * (x \div 10 + 1)
  ELSE IF (x \div 10) % 2 = 0 THEN 10 * (x \div 10) ELSE 10 * (x \div 10 + 1)

\* `_THRESHOLD or 0.10`: None and 0.0 are both falsy.
EffectiveThreshold(g) ==
  IF g.THRESHOLD.isNone \/ g.THRESHOLD.val = 0 THEN DefaultThreshold
  ELSE g.THRESHOLD.val

\* Lines 433-435 and 470-472: test_metrics of a truthy (non-empty) metadata.
TestMetrics(g) ==
  IF ~g.FEATURE_METADATA.isNone /\ g.FEATURE_METADATA.keys # {}
     /\ "test_metrics" \in g.FEATURE_METADATA.keys
  THEN g.FEATURE_METADATA.test_metrics ELSE NoMetrics

\* test_metrics.get(key, dflt)
Metric(g, key, dflt) ==
  IF key \in DOMAIN TestMetrics(g) THEN TestMetrics(g)[key] ELSE dflt

Disclaimer ==
  "This is a decision support tool, not a diagnostic test. Clinical judgment should always take precedence."

Decision(g, probability) ==
  IF probability < EffectiveThreshold(g) THEN "rule_out" ELSE "continue_workup"

\* Mutant of Band: the band limits are inclusive (`<=`).
Band_inclusive(g, probability) ==
  IF Decision(g, probability) = "rule_out" THEN "Low"
  ELSE IF probability <= 25000 THEN "Moderate"
  ELSE IF probability <= 50000 THEN "Elevated"
  ELSE "High"

\* The first word of the explanation.
Band(g, probability) ==
  IF Decision(g, probability) = "rule_out" THEN "Low"
  ELSE IF probability < 25000 THEN "Moderate"
  ELSE IF probability < 50000 THEN "Elevated"
  ELSE "High"

interpret_pe_result(g, probability) ==
  [probability |-> Round4(probability),
   threshold |-> Round4(EffectiveThreshold(g)),
   decision |-> Decision(g, probability),
   explanation |-> Band(g, probability),
   confidence |-> IF Band(g, probability) = "Moderate" THEN "moderate" ELSE "high",
   sensitivity |-> Metric(g, "Sensitivity", 99000),
   npv |-> Metric(g, "NPV", 97600),
   rule_out_rate |-> Metric(g, "Safe_Rule_Out_Rate", 5800),
   disclaimer |-> Disclaimer]

\* ------------------------------------------------------ get_model_info
get_model_info(g) ==
  [model_type |-> "Ensemble (XGBoost + LightGBM + RandomForest)",
   features_count |->
     IF ~g.FEATURE_COLS.isNone /\ Len(g.FEATURE_COLS.val) > 0
     THEN Len(g.FEATURE_COLS.val) ELSE 0,
   threshold |-> EffectiveThreshold(g),
   required_features |-> REQUIRED_FEATURES,
   missingness_features |-> MISSINGNESS_FEATURES,
   missing_value_strategy |-> "hybrid",
   performance |->
     [sensitivity |-> Metric(g, "Sensitivity", 99000),
      specificity |-> Metric(g, "Specificity", 6700),
      npv |-> Metric(g, "NPV", 97600),
      ppv |-> Metric(g, "PPV", 15000),
      rule_out_rate |-> Metric(g, "Safe_Rule_Out_Rate", 5800),
      roc_auc |-> Metric(g, "ROC_AUC", 68000),
      missed_pe_rate |-> Metric(g, "Missed_PE_Rate", 100)],
   training_data |-> "MIMIC-IV ED",
   version |-> "2.0.0",
   last_updated |-> "2024-12-20"]

\* ------------------------------------------------------------ requests
\* m without key k.
Remove(m, k) == [j \in DOMAIN m \ {k} |-> m[j]]

\* A complete triage record with one lab (age 65, gender "M", hr 95, rr 18,
\* o2sat 96, temp 37, sbp 130, dbp 80, d_dimer 450).
ScenarioA ==
  "age" :> Num(65) @@ "gender" :> Str @@ "triage_hr" :> Num(95)
  @@ "triage_rr" :> Num(18) @@ "triage_o2sat" :> Num(96)
  @@ "triage_temp" :> Num(37) @@ "triage_sbp" :> Num(130)
  @@ "triage_dbp" :> Num(80) @@ "d_dimer" :> Num(450)

\* test_predict_with_missing_features: "Many features missing".
MissingFeaturesTest ==
  "age" :> Num(50) @@ "gender" :> Str @@ "triage_hr" :> Num(80)
  @@ "triage_o2sat" :> Num(98) @@ "d_dimer" :> Num(300)

\* test_assessment_with_direct_features: the vitals without triage_rr.
DirectFeaturesTest ==
  "age" :> Num(60) @@ "gender" :> Str @@ "triage_hr" :> Num(90)
  @@ "triage_o2sat" :> Num(96) @@ "d_dimer" :> Num(450)
  @@ "triage_sbp" :> Num(120) @@ "triage_dbp" :> Num(80)

\* The feature dicts a caller passes (the request body's `features` is a
\* Dict[str, Any]): the record above; with one key set to None, NaN, a
\* number, a numeric string or another string; with one required key left
\* out; with two required features missing; the dicts of the two tests
\* that omit features.
OverrideKeys ==
  {"age", "triage_hr", "triage_o2sat", "d_dimer", "hr_mean", "cc_leg_pain_swelling"}
OverrideValues == {None, NaN, Num(0), Num(120), NumStr(65), Str}
RequestFeatures ==
  {ScenarioA}
  \cup {Put(ScenarioA, k, x) : k \in OverrideKeys, x \in OverrideValues}
  \cup {Remove(ScenarioA, k) : k \in Range(REQUIRED_FEATURES)}
  \cup {Put(Put(ScenarioA, "triage_sbp", None), "age", NaN),
        Remove(Put(ScenarioA, "triage_rr", NaN), "triage_hr"),
        Remove(Remove(ScenarioA, "triage_dbp"), "triage_o2sat")}
  \cup {MissingFeaturesTest, DirectFeaturesTest}

\* The probabilities interpret_pe_result is asked about.
ProbGrid == {0, 5000, 7999, 8000, 9999, 10000, 24999, 25000, 49999, 50000, Unit}

\* --------------------------------------------------------------- actions
SetGlobals(g) ==
  /\ _MODEL' = g.MODEL
  /\ _SCALER' = g.SCALER
  /\ _FEATURE_COLS' = g.FEATURE_COLS
  /\ _THRESHOLD' = g.THRESHOLD
  /\ _FEATURE_METADATA' = g.FEATURE_METADATA
  /\ _SCALER_MEAN' = g.SCALER_MEAN
  /\ _SCALER_SCALE' = g.SCALER_SCALE

\* load_pe_model(), at startup or again (each test class calls it).
LoadPeModel ==
  /\ loads < MaxLoads
  /\ \E disk \in DiskStates :
       /\ SetGlobals(load_pe_model(G, disk).g)
       /\ result' = [op |-> "load_pe_model", exc |-> load_pe_model(G, disk).exc]
  /\ loads' = loads + 1
  /\ UNCHANGED <<features, web, lists>>

ValidateRequiredFeatures ==
  /\ result' = [op |-> "validate_required_features",
                value |-> validate_required_features(features)]
  /\ UNCHANGED <<globals, features, loads, web, lists>>

PrepareFeatureVector ==
  /\ result' = [op |-> "prepare_feature_vector",
                exc |-> prepare_error(G, features),
                value |-> IF prepare_error(G, features) = ""
                          THEN prepare_feature_vector(G, features)
                          ELSE [columns |-> <<>>, values |-> <<>>, scaling |-> ""]]
  /\ UNCHANGED <<globals, features, loads, web, lists>>

\* Mutant of PredictPeProbability: the call drops the scaler object once it
\* has used it.
PredictPeProbability_drops_scaler ==
  /\ \E p \in RealProbs : result' = predict_pe_probability(G, features, p)
  /\ _SCALER' = NoScaler
  /\ UNCHANGED <<_MODEL, _FEATURE_COLS, _THRESHOLD, _FEATURE_METADATA,
                 _SCALER_MEAN, _SCALER_SCALE, features, loads, web, lists>>

PredictPeProbability ==
  /\ \E p \in RealProbs : result' = predict_pe_probability(G, features, p)
  /\ UNCHANGED <<globals, features, loads, web, lists>>

InterpretPeResult ==
  /\ \E p \in ProbGrid :
       result' = [op |-> "interpret_pe_result", probability |-> p,
                  value |-> interpret_pe_result(G, p)]
  /\ UNCHANGED <<globals, features, loads, web, lists>>

GetModelInfo ==
  /\ result' = [op |-> "get_model_info", value |-> get_model_info(G)]
  /\ UNCHANGED <<globals, features, loads, web, lists>>

\* JSONResponse(content=response) renders with allow_nan=False: a NaN in
\* feature_summary (the dict the caller sent) raises ValueError.
JsonRenderRaises(f) == \E k \in DOMAIN f : f[k] = NaN

\* POST /api/pe-assessment with `features` in the body (a non-empty dict, the
\* branch of line 721): predict, interpret, respond; any exception but
\* HTTPException becomes a 500.
pe_assessment(g, f, p) ==
  LET out == predict_pe_probability(g, f, p)
      interpreted == interpret_pe_result(g, out.value)
  IN IF out.exc # "" \/ JsonRenderRaises(f)
     THEN [op |-> "pe_assessment", status_code |-> 500,
           detail |-> IF out.exc # "" THEN out.exc ELSE "ValueError",
           missing |-> out.missing,
           probability |-> 0, threshold |-> 0, decision |-> "", explanation |-> ""]
     ELSE [op |-> "pe_assessment", status_code |-> 200, detail |-> "",
           missing |-> <<>>,
           probability |-> interpreted.probability,
           threshold |-> interpreted.threshold,
           decision |-> interpreted.decision,
           explanation |-> interpreted.explanation]

PeAssessment ==
  /\ features # EmptyDict
  /\ \E p \in RealProbs : result' = pe_assessment(G, features, p)
  /\ UNCHANGED <<globals, features, loads, web, lists>>

\* get_required_features(): a copy of the list.
get_required_features == REQUIRED_FEATURES

GetRequiredFeatures ==
  /\ result' = [op |-> "get_required_features", value |-> get_required_features]
  /\ UNCHANGED <<globals, features, loads, web, lists>>

\* Lines 31-37: every global is None.
SetGlobalsInit ==
  /\ _MODEL = Unloaded.MODEL
  /\ _SCALER = Unloaded.SCALER
  /\ _FEATURE_COLS = Unloaded.FEATURE_COLS
  /\ _THRESHOLD = Unloaded.THRESHOLD
  /\ _FEATURE_METADATA = Unloaded.FEATURE_METADATA
  /\ _SCALER_MEAN = Unloaded.SCALER_MEAN
  /\ _SCALER_SCALE = Unloaded.SCALER_SCALE

\* ---------------------------------------------------- the serving module
\* After import: nothing loaded, no call made yet.  `features` is the dict
\* the caller of this behaviour passes to the calls.
Init ==
  /\ SetGlobalsInit
  /\ features \in RequestFeatures
  /\ result = [op |-> "import"]
  /\ loads = 0
  /\ WebIdle

Next ==
  \/ LoadPeModel
  \/ ValidateRequiredFeatures
  \/ PrepareFeatureVector
  \/ PredictPeProbability
  \/ InterpretPeResult
  \/ GetModelInfo
  \/ PeAssessment
  \/ GetRequiredFeatures

Spec == Init /\ [][Next]_vars

\* ------------------------------------------------ the missingness policy
\* The two policy functions on their own, over every way of giving the six
\* required features (a number, None, NaN, no key) and, for every optional
\* feature, every kind of value.
ReqChoices == [Range(REQUIRED_FEATURES) -> {"num", "none", "nan", "absent"}]
ReqDict(c) ==
  [k \in {x \in Range(REQUIRED_FEATURES) : c[x] # "absent"} |->
     CASE c[k] = "num" -> Num(70) [] c[k] = "none" -> None [] OTHER -> NaN]
AllRequired == ReqDict([x \in Range(REQUIRED_FEATURES) |-> "num"])
PolicyInputs ==
  {ReqDict(c) @@ ("d_dimer" :> Num(450) @@ "wbc" :> None @@ "gender" :> Str) :
     c \in ReqChoices}
  \cup {Put(AllRequired, x, v) : x \in OptionalFeatures, v \in OverrideValues}
  \cup {AllRequired,
        Put(Put(AllRequired, "wbc", Num(7)), "wbc_missing", Num(1)),
        Put(Put(AllRequired, "ph", NaN), "ph_missing", Num(0))}

\* enhanced = apply_missingness_features(features): the argument is copied,
\* never written.
ApplyMissingnessFeatures ==
  /\ result' = [op |-> "apply_missingness_features", arg |-> features,
                value |-> apply_missingness_features(features)]
  /\ UNCHANGED <<globals, features, loads, web, lists>>

\* A caller passes the map the policy returned through the policy again.
ApplyMissingnessAgain ==
  /\ result.op = "apply_missingness_features"
  /\ result' = [op |-> "apply_missingness_features_again", arg |-> result.value,
                value |-> apply_missingness_features(result.value)]
  /\ UNCHANGED <<globals, features, loads, web, lists>>

InitPolicy ==
  /\ SetGlobalsInit
  /\ features \in PolicyInputs
  /\ result = [op |-> "import"]
  /\ loads = 0
  /\ WebIdle

NextPolicy ==
  \/ ValidateRequiredFeatures
  \/ ApplyMissingnessFeatures
  \/ ApplyMissingnessAgain

SpecPolicy == InitPolicy /\ [][NextPolicy]_vars

\* =============================================== integration/fhir_mapping
\* ------------------------------------------------- FHIR Observation JSON
\* float(x): a number or a numeric string gives the number, another string
\* raises ValueError, None raises TypeError.
Float(x) ==
  CASE x.t = "num" -> [exc |-> "", value |-> x]
    [] x.t = "nan" -> [exc |-> "", value |-> x]
    [] x.t = "numstr" -> [exc |-> "", value |-> Ratio(x.v, x.d)]
    [] x.t = "str" -> [exc |-> "ValueError", value |-> None]
    [] OTHER -> [exc |-> "TypeError", value |-> None]

\* A key of an Observation that holds a scalar: no such key, or the value.
NoKey == Absent(None)

\* "valueQuantity": {"value": v, ...}; a quantity without "value" reads as
\* None through .get("value").
Quantity(v) == Present(v)

LOINC == "http://loinc.org"

\* One entry of observation["code"]["coding"].
Coding(system, code) == [system |-> system, code |-> code]

\* One entry of observation["component"]: its own code and valueQuantity.
Component(code, quantity) == [code |-> code, valueQuantity |-> quantity]

\* No "component" key; a list of components.
NoComponents == [present |-> FALSE, val |-> <<>>]
Components(cs) == [present |-> TRUE, val |-> cs]

\* No "code" (or no "coding" in it); a list of codings.
NoCodings == [present |-> FALSE, val |-> <<>>]
Codings(cs) == [present |-> TRUE, val |-> cs]

\* An Observation resource, as far as the mapping reads it.
Observation(coding, vq, vi, vd, vs, comp) ==
  [coding |-> coding, valueQuantity |-> vq, valueInteger |-> vi,
   valueDecimal |-> vd, valueString |-> vs, component |-> comp]

\* -------------------------------------------- extract_observation_value
\* Lines 272-276: the first component that has a valueQuantity, whatever
\* its code.
RECURSIVE FirstComponentValue(_, _)
FirstComponentValue(cs, i) ==
  IF i > Len(cs) THEN None
  ELSE IF cs[i].valueQuantity.present THEN cs[i].valueQuantity.val
  ELSE FirstComponentValue(cs, i + 1)

\* (exception, returned value)
extract_observation_value(observation) ==
  IF observation.valueQuantity.present
  THEN [exc |-> "", value |-> observation.valueQuantity.val]
  ELSE IF observation.valueInteger.present
  THEN Float(observation.valueInteger.val)
  ELSE IF observation.valueDecimal.present
  THEN Float(observation.valueDecimal.val)
  ELSE IF observation.valueString.present
          /\ Float(observation.valueString.val).exc = ""
  THEN Float(observation.valueString.val)
  ELSE IF observation.component.present
  THEN [exc |-> "", value |-> FirstComponentValue(observation.component.val, 1)]
  ELSE [exc |-> "", value |-> None]

\* -------------------------------------------- find_observation_by_loinc
\* Lines 292-295: some coding of the observation is a LOINC coding with one
\* of the codes.
ObservationMatches(obs, loinc_codes) ==
  /\ obs.coding.present
  /\ \E i \in 1..Len(obs.coding.val) :
       /\ obs.coding.val[i].system = LOINC
       /\ obs.coding.val[i].code \in Range(loinc_codes)

\* Mutant of find_observation_by_loinc: the first matching observation
\* decides, whether or not a value could be extracted from it.
RECURSIVE FindLoopFirstMatch(_, _, _)
FindLoopFirstMatch(observations, loinc_codes, i) ==
  IF i > Len(observations) THEN [exc |-> "", value |-> None]
  ELSE IF ObservationMatches(observations[i], loinc_codes)
  THEN extract_observation_value(observations[i])
  ELSE FindLoopFirstMatch(observations, loinc_codes, i + 1)
find_observation_by_loinc_first_match(observations, loinc_codes) ==
  FindLoopFirstMatch(observations, loinc_codes, 1)

\* Lines 290-300: the loop over the observations in input order.
RECURSIVE FindLoop(_, _, _)
FindLoop(observations, loinc_codes, i) ==
  IF i > Len(observations) THEN [exc |-> "", value |-> None]
  ELSE IF ObservationMatches(observations[i], loinc_codes)
          /\ (extract_observation_value(observations[i]).exc # ""
              \/ extract_observation_value(observations[i]).value # None)
  THEN extract_observation_value(observations[i])
  ELSE FindLoop(observations, loinc_codes, i + 1)

\* (exception, returned value)
find_observation_by_loinc(observations, loinc_codes) ==
  FindLoop(observations, loinc_codes, 1)

\* ------------------------------------------------------- extract_gender
\* An optional string: None, or the text.
NoText == [isNone |-> TRUE, s |-> ""]
Text(s) == [isNone |-> FALSE, s |-> s]

\* patient["gender"]: no key, JSON null, a string, or a JSON number.
GenderAbsent == [kind |-> "absent", s |-> ""]
GenderNull == [kind |-> "null", s |-> ""]
GenderStr(s) == [kind |-> "str", s |-> s]
GenderNumber == [kind |-> "number", s |-> ""]

\* The gender strings of the model, and str.lower() on them.
GenderTexts ==
  {"male", "female", "other", "unknown", "Male", "MALE", "Female", "FEMALE",
   "Other", "Unknown", "nonbinary", "M", "F", "m", "transgender", ""}
lower(s) ==
  CASE s \in {"male", "Male", "MALE"} -> "male"
    [] s \in {"female", "Female", "FEMALE"} -> "female"
    [] s \in {"other", "Other"} -> "other"
    [] s \in {"unknown", "Unknown"} -> "unknown"
    [] s \in {"M", "m"} -> "m"
    [] s = "F" -> "f"
    [] OTHER -> s

\* Lines 418-424: gender_map.get(gender.lower(), gender)
gender_map(key, dflt) ==
  CASE key = "male" -> Text("M")
    [] key = "female" -> Text("F")
    [] key = "other" -> Text("Other")
    [] key = "unknown" -> NoText
    [] OTHER -> dflt

\* (exception, returned value); a truthy value that is no str has no
\* .lower().
extract_gender(gender) ==
  IF gender.kind \in {"absent", "null"} \/ (gender.kind = "str" /\ gender.s = "")
  THEN [exc |-> "", value |-> NoText]
  ELSE IF gender.kind = "number"
  THEN [exc |-> "AttributeError", value |-> NoText]
  ELSE [exc |-> "", value |-> gender_map(lower(gender.s), Text(gender.s))]

\* ---------------------------------------------------------- extract_age
\* A calendar date.
Date(y, m, d) == [y |-> y, m |-> m, d |-> d]

IsLeap(y) == (y % 4 = 0 /\ y % 100 # 0) \/ y % 400 = 0
DaysIn(y, m) ==
  CASE m \in {4, 6, 9, 11} -> 30
    [] m = 2 -> (IF IsLeap(y) THEN 29 ELSE 28)
    [] OTHER -> 31

\* patient["birthDate"]: no key, JSON null, a JSON number, or a string: ""
\* , the text "<y>-<m>-<d>" of three numbers, a partial date ("1960-01"), a
\* date with a time ("1960-01-01T00:00:00") or other text ("invalid").
BirthAbsent == [kind |-> "absent", y |-> 0, m |-> 0, d |-> 0]
BirthNull == [kind |-> "null", y |-> 0, m |-> 0, d |-> 0]
BirthNumber == [kind |-> "number", y |-> 1960, m |-> 0, d |-> 0]
BirthEmpty == [kind |-> "empty", y |-> 0, m |-> 0, d |-> 0]
BirthYmd(y, m, d) == [kind |-> "ymd", y |-> y, m |-> m, d |-> d]
BirthPartial(y, m) == [kind |-> "partial", y |-> y, m |-> m, d |-> 0]
BirthDateTime(y, m, d) == [kind |-> "datetime", y |-> y, m |-> m, d |-> d]
BirthInvalid == [kind |-> "invalid", y |-> 0, m |-> 0, d |-> 0]

\* datetime.strptime(text, "%Y-%m-%d") succeeds: three numbers that are a
\* date of the calendar, and nothing after them.
strptime_ok(b) ==
  /\ b.kind = "ymd"
  /\ b.y \in 1..9999 /\ b.m \in 1..12 /\ b.d \in 1..DaysIn(b.y, b.m)

\* Mutant of extract_age: the year is taken off on the birthday too.
extract_age_on_birthday(birth, today) ==
  IF birth.kind \in {"absent", "null", "empty"} THEN NoNumber
  ELSE IF ~strptime_ok(birth) THEN NoNumber
  ELSE IF today.m < birth.m \/ (today.m = birth.m /\ today.d <= birth.d)
  THEN Number(today.y - birth.y - 1)
  ELSE Number(today.y - birth.y)

\* Lines 430-443; every exception of the parse is caught.
extract_age(birth, today) ==
  IF birth.kind \in {"absent", "null", "empty"} THEN NoNumber
  ELSE IF ~strptime_ok(birth) THEN NoNumber
  ELSE IF today.m < birth.m \/ (today.m = birth.m /\ today.d < birth.d)
  THEN Number(today.y - birth.y - 1)
  ELSE Number(today.y - birth.y)

\* ------------------------------------------------- map_fhir_to_features
\* VITAL_SIGNS_LOINC and LAB_LOINC, by the feature each entry is read for
\* (lines 376-397); "ph" is in the table and is not read.
HeightCodes == <<"8302-2">>
WeightCodes == <<"29463-7", "3141-9">>
FeatureLoinc ==
  "triage_hr" :> <<"8867-4">> @@ "triage_rr" :> <<"9279-1">>
  @@ "triage_o2sat" :> <<"59408-5", "2708-6">>
  @@ "triage_temp" :> <<"8310-5", "8331-1">>
  @@ "triage_sbp" :> <<"8480-6">> @@ "triage_dbp" :> <<"8462-4">>
  @@ "d_dimer" :> <<"48065-7", "48066-5">>
  @@ "troponin_t" :> <<"6598-7", "89579-7">> @@ "ntprobnp" :> <<"33762-6">>
  @@ "creatinine" :> <<"2160-0">> @@ "hemoglobin" :> <<"718-7">>
  @@ "wbc" :> <<"6690-2">> @@ "platelet" :> <<"777-3">>
  @@ "sodium" :> <<"2951-2">> @@ "potassium" :> <<"2823-3">>
  @@ "bun" :> <<"3094-0">> @@ "glucose" :> <<"2345-7", "2339-0">>
  @@ "lactate" :> <<"2524-7">> @@ "po2" :> <<"2703-7">> @@ "pco2" :> <<"2019-8">>

\* Lines 322-348: the keys the dict starts with, each with None.
InitialFeatureKeys ==
  {"age", "gender", "bmi", "height_cm", "weight_lbs", "triage_hr", "triage_rr",
   "triage_o2sat", "triage_temp", "triage_sbp", "triage_dbp", "d_dimer",
   "troponin_t", "ntprobnp", "creatinine", "hemoglobin", "wbc", "platelet",
   "sodium", "potassium", "bun", "glucose", "lactate", "po2", "pco2"}

\* x * k/m and w / h ** 2 on numbers and NaN.
Times(x, k, m) == IF x.t = "nan" THEN NaN ELSE Ratio(x.v * k, x.d * m)
Bmi(w, h) ==
  IF w.t = "nan" \/ h.t = "nan" THEN NaN
  ELSE Ratio(w.v * h.d * h.d, w.d * h.v * h.v)

\* A Patient resource, as far as the mapping reads it.
Patient(gender, birthDate) == [gender |-> gender, birthDate |-> birthDate]

\* The value of gender in the feature dict, as a value of the dict.
GenderValue(g) == IF g.isNone THEN None ELSE [t |-> "str", v |-> 0, d |-> 1, s |-> g.s]
AgeValue(a) == IF a.isNone THEN None ELSE Num(a.val)

\* The value each key holds when the function returns (lines 355-397);
\* h and w are what was found for height and weight.
MappedValue(k, patient, observations, today, h, w) ==
  CASE k = "gender" -> GenderValue(extract_gender(patient.gender).value)
    [] k = "age" -> AgeValue(extract_age(patient.birthDate, today))
    [] k = "height_cm" -> (IF Truthy(h) THEN Times(h, 100, 1) ELSE None)
    [] k = "weight_lbs" -> (IF Truthy(w) THEN Times(w, 220462, 100000) ELSE None)
    [] k = "bmi" -> (IF Truthy(h) /\ Truthy(w) THEN Bmi(w, h) ELSE None)
    [] k \in DOMAIN FeatureLoinc ->
         find_observation_by_loinc(observations, FeatureLoinc[k]).value
    [] OTHER -> None

\* The keys lines 355-397 assign.
AssignedKeys(h, w) ==
  {"gender", "age"} \cup DOMAIN FeatureLoinc
  \cup (IF Truthy(h) THEN {"height_cm"} ELSE {})
  \cup (IF Truthy(w) THEN {"weight_lbs"} ELSE {})
  \cup (IF Truthy(h) /\ Truthy(w) THEN {"bmi"} ELSE {})

\* What makes the function raise: a failed fetch, gender.lower() on a
\* number, an extraction that raises, arithmetic on a text height or weight,
\* and format_value's f"{value:.1f}" on a text value in
\* _build_feature_summary.
map_raises(patient, observations, today, patient_fetch, observations_fetch) ==
  LET h == find_observation_by_loinc(observations, HeightCodes)
      w == find_observation_by_loinc(observations, WeightCodes)
  IN CASE patient_fetch # "ok" -> patient_fetch
       [] extract_gender(patient.gender).exc # "" -> "AttributeError"
       [] observations_fetch # "ok" -> observations_fetch
       [] h.exc # "" -> h.exc
       [] w.exc # "" -> w.exc
       [] IsText(w.value) -> "TypeError"
       [] IsText(h.value) /\ Truthy(w.value) -> "TypeError"
       [] \E k \in DOMAIN FeatureLoinc :
            find_observation_by_loinc(observations, FeatureLoinc[k]).exc # "" ->
            "ValueError"
       [] IsText(h.value) -> "ValueError"
       [] \E k \in DOMAIN FeatureLoinc :
            IsText(find_observation_by_loinc(observations, FeatureLoinc[k]).value) ->
            "ValueError"
       [] OTHER -> ""

\* Mutant of map_fhir_to_features: the dict starts empty and only the
\* values that were found are stored.
map_fhir_to_features_sparse(patient, observations, today) ==
  LET h == find_observation_by_loinc(observations, HeightCodes).value
      w == find_observation_by_loinc(observations, WeightCodes).value
  IN [k \in {j \in AssignedKeys(h, w) :
               MappedValue(j, patient, observations, today, h, w) # None} |->
        MappedValue(k, patient, observations, today, h, w)]

\* The feature dict of a call that returns.
map_fhir_to_features(patient, observations, today) ==
  LET h == find_observation_by_loinc(observations, HeightCodes).value
      w == find_observation_by_loinc(observations, WeightCodes).value
  IN [k \in InitialFeatureKeys \cup AssignedKeys(h, w) |->
        IF k \in AssignedKeys(h, w)
        THEN MappedValue(k, patient, observations, today, h, w)
        ELSE None]

\* ------------------------------------------------- the mapping's inputs
\* An observation with one coding and one value key.
Coded(system, code) == Codings(<<Coding(system, code)>>)
WithQuantity(coding, v) ==
  Observation(coding, Quantity(v), NoKey, NoKey, NoKey, NoComponents)
WithInteger(coding, v) ==
  Observation(coding, NoKey, Present(v), NoKey, NoKey, NoComponents)
WithDecimal(coding, v) ==
  Observation(coding, NoKey, NoKey, Present(v), NoKey, NoComponents)
WithString(coding, v) ==
  Observation(coding, NoKey, NoKey, NoKey, Present(v), NoComponents)
WithComponents(coding, vs, cs) ==
  Observation(coding, NoKey, NoKey, NoKey, vs, Components(cs))

HeartRate == Coded(LOINC, "8867-4")

\* A blood-pressure panel: systolic 120 over diastolic 80.
PressureComponents ==
  <<Component("8480-6", Quantity(Num(120))), Component("8462-4", Quantity(Num(80)))>>

\* The observations extract_observation_value is asked about: each value
\* key with each kind of value, two value keys at once, components with and
\* without a value, and no value key.
ScalarValues == {Num(85), Ratio(197, 2), NumStr(150), Str, None}
ExtractInputs ==
  {WithQuantity(HeartRate, v) : v \in ScalarValues}
  \cup {WithInteger(HeartRate, v) : v \in ScalarValues}
  \cup {WithDecimal(HeartRate, v) : v \in ScalarValues}
  \cup {WithString(HeartRate, v) : v \in ScalarValues}
  \cup {WithComponents(Coded(LOINC, c), vs, PressureComponents) :
          c \in {"8480-6", "8462-4", "85354-9"}, vs \in {NoKey, Present(Str)}}
  \cup {WithComponents(Coded(LOINC, "8462-4"), NoKey, cs) :
          cs \in {<<>>, <<Component("8480-6", NoKey)>>,
                  <<Component("8480-6", NoKey),
                    Component("8462-4", Quantity(Num(80)))>>}}
  \cup {Observation(HeartRate, Quantity(Num(85)), Present(Num(90)), NoKey,
                    Present(NumStr(95)), NoComponents),
        Observation(HeartRate, NoKey, Present(Num(90)), Present(Num(91)),
                    NoKey, NoComponents),
        Observation(NoCodings, NoKey, NoKey, NoKey, NoKey, NoComponents)}

\* The observations a fetched list is made of.
ObservationPool ==
  {WithQuantity(HeartRate, Num(85)),
   WithQuantity(HeartRate, Num(110)),
   WithString(HeartRate, Str),
   WithQuantity(Coded(LOINC, "2708-6"), Num(98)),
   WithQuantity(Coded(LOINC, "9999-9"), Num(100)),
   WithQuantity(Coded("http://snomed.info/sct", "8867-4"), Num(77)),
   WithQuantity(NoCodings, Num(60)),
   WithDecimal(Codings(<<Coding("urn:local", "HR"), Coding(LOINC, "8867-4")>>),
               Ratio(145, 2))}

\* Observations that the whole mapping meets besides: height and weight, a
\* height of 0, a panel filed under the diastolic code, a malformed
\* valueInteger, and a quantity whose value is a string.
MappingPool ==
  {WithQuantity(HeartRate, Num(85)),
   WithString(HeartRate, Str),
   WithQuantity(Coded(LOINC, "8302-2"), Ratio(17, 10)),
   WithQuantity(Coded(LOINC, "8302-2"), Num(0)),
   WithQuantity(Coded(LOINC, "29463-7"), Num(80)),
   WithComponents(Coded(LOINC, "8462-4"), NoKey, PressureComponents),
   WithInteger(Coded(LOINC, "48065-7"), Str),
   WithQuantity(Coded(LOINC, "2708-6"), NumStr(98)),
   WithQuantity(Coded(LOINC, "6598-7"), Ratio(3, 100)),
   WithQuantity(Coded(LOINC, "2160-0"), Ratio(11, 10))}

\* The longest list of observations find_observation_by_loinc and the whole
\* mapping are given.
MaxObservations == 3
MaxMappedObservations == 2

\* Every list over a pool, up to a length.
ListsOver(S, n) == UNION {[1..k -> S] : k \in 0..n}

CodeLists == {<<"8867-4">>, <<"59408-5", "2708-6">>, <<"8462-4", "8867-4">>}

Genders ==
  {GenderAbsent, GenderNull, GenderNumber} \cup {GenderStr(s) : s \in GenderTexts}

Todays == {Date(2025, 3, 15), Date(2026, 11, 3), Date(2024, 2, 29), Date(2025, 12, 31)}

BirthDates ==
  {BirthAbsent, BirthNull, BirthNumber, BirthEmpty, BirthInvalid,
   BirthPartial(1960, 1), BirthDateTime(1960, 1, 1)}
  \cup {BirthYmd(y, m, d) : y \in {1960, 2000, 2024, 2030},
                            m \in {0, 1, 2, 3, 11, 12, 13},
                            d \in {0, 1, 15, 16, 28, 29, 30, 31, 32}}

Patients ==
  {Patient(g, b) : g \in {GenderAbsent, GenderNumber, GenderStr("female"),
                          GenderStr("nonbinary")},
                   b \in {BirthAbsent, BirthInvalid, BirthYmd(1960, 3, 15)}}

FetchOutcomes == {"ok", "HTTPStatusError", "FHIRScopeError"}

\* --------------------------------------------------- the mapping's calls
\* A call that is about to be made, with its arguments.
ExtractCalls ==
  {[op |-> "call", fn |-> "extract_observation_value", observation |-> o] :
     o \in ExtractInputs}
FindCalls ==
  {[op |-> "call", fn |-> "find_observation_by_loinc", observations |-> os,
    loinc_codes |-> cs] :
     os \in ListsOver(ObservationPool, MaxObservations), cs \in CodeLists}
GenderCalls ==
  {[op |-> "call", fn |-> "extract_gender", gender |-> g] : g \in Genders}
AgeCalls ==
  {[op |-> "call", fn |-> "extract_age", birthDate |-> b, today |-> t] :
     b \in BirthDates, t \in Todays}
MapCalls ==
  {[op |-> "call", fn |-> "map_fhir_to_features", patient |-> p,
    observations |-> os, today |-> Date(2026, 11, 3), patient_fetch |-> pf,
    observations_fetch |-> obf] :
     p \in Patients, os \in ListsOver(MappingPool, MaxMappedObservations),
     pf \in FetchOutcomes, obf \in FetchOutcomes}

Calling(fn) == result.op = "call" /\ result.fn = fn

ExtractObservationValue ==
  /\ Calling("extract_observation_value")
  /\ result' = [op |-> "extract_observation_value",
                observation |-> result.observation,
                exc |-> extract_observation_value(result.observation).exc,
                value |-> extract_observation_value(result.observation).value]
  /\ UNCHANGED <<globals, features, loads, web, lists>>

FindObservationByLoinc ==
  /\ Calling("find_observation_by_loinc")
  /\ LET found == find_observation_by_loinc(result.observations, result.loinc_codes)
     IN result' = [op |-> "find_observation_by_loinc",
                   observations |-> result.observations,
                   loinc_codes |-> result.loinc_codes,
                   exc |-> found.exc, value |-> found.value]
  /\ UNCHANGED <<globals, features, loads, web, lists>>

ExtractGender ==
  /\ Calling("extract_gender")
  /\ result' = [op |-> "extract_gender", gender |-> result.gender,
                exc |-> extract_gender(result.gender).exc,
                value |-> extract_gender(result.gender).value]
  /\ UNCHANGED <<globals, features, loads, web, lists>>

\* datetime.now() is an input of the call.
ExtractAge ==
  /\ Calling("extract_age")
  /\ result' = [op |-> "extract_age", birthDate |-> result.birthDate,
                today |-> result.today,
                value |-> extract_age(result.birthDate, result.today)]
  /\ UNCHANGED <<globals, features, loads, web, lists>>

\* await map_fhir_to_features(fhir_client, patient_id): the two fetches
\* answer or raise; the call returns the dict or raises.
MapFhirToFeatures ==
  /\ Calling("map_fhir_to_features")
  /\ LET exc == map_raises(result.patient, result.observations, result.today,
                           result.patient_fetch, result.observations_fetch)
     IN result' = [op |-> "map_fhir_to_features", patient |-> result.patient,
                   observations |-> result.observations, today |-> result.today,
                   exc |-> exc,
                   value |-> IF exc = ""
                             THEN map_fhir_to_features(result.patient,
                                    result.observations, result.today)
                             ELSE EmptyDict]
  /\ UNCHANGED <<globals, features, loads, web, lists>>

InitFhir ==
  /\ SetGlobalsInit
  /\ features = EmptyDict
  /\ result \in ExtractCalls \cup FindCalls \cup GenderCalls \cup AgeCalls \cup MapCalls
  /\ loads = 0
  /\ WebIdle

NextFhir ==
  \/ ExtractObservationValue
  \/ FindObservationByLoinc
  \/ ExtractGender
  \/ ExtractAge
  \/ MapFhirToFeatures

SpecFhir == InitFhir /\ [][NextFhir]_vars

\* ========================================== integration/clinical_mappings
\* A text is the sequence of its characters.
DOACPatterns ==
  <<<<"a", "p", "i", "x", "a", "b", "a", "n">>,
    <<"e", "l", "i", "q", "u", "i", "s">>,
    <<"r", "i", "v", "a", "r", "o", "x", "a", "b", "a", "n">>,
    <<"x", "a", "r", "e", "l", "t", "o">>,
    <<"d", "a", "b", "i", "g", "a", "t", "r", "a", "n">>,
    <<"p", "r", "a", "d", "a", "x", "a">>,
    <<"e", "d", "o", "x", "a", "b", "a", "n">>,
    <<"s", "a", "v", "a", "y", "s", "a">>,
    <<"l", "i", "x", "i", "a", "n", "a">>,
    <<"b", "e", "t", "r", "i", "x", "a", "b", "a", "n">>,
    <<"b", "e", "v", "y", "x", "x", "a">>>>
WarfarinPatterns ==
  <<<<"w", "a", "r", "f", "a", "r", "i", "n">>,
    <<"c", "o", "u", "m", "a", "d", "i", "n">>,
    <<"j", "a", "n", "t", "o", "v", "e", "n">>>>
Heparin_LMWHPatterns ==
  <<<<"h", "e", "p", "a", "r", "i", "n">>,
    <<"u", "n", "f", "r", "a", "c", "t", "i", "o", "n", "a", "t", "e", "d", " ", "h", "e", "p", "a", "r", "i", "n">>,
    <<"e", "n", "o", "x", "a", "p", "a", "r", "i", "n">>,
    <<"l", "o", "v", "e", "n", "o", "x">>,
    <<"d", "a", "l", "t", "e", "p", "a", "r", "i", "n">>,
    <<"f", "r", "a", "g", "m", "i", "n">>,
    <<"t", "i", "n", "z", "a", "p", "a", "r", "i", "n">>,
    <<"i", "n", "n", "o", "h", "e", "p">>,
    <<"f", "o", "n", "d", "a", "p", "a", "r", "i", "n", "u", "x">>,
    <<"a", "r", "i", "x", "t", "r", "a">>>>
AntiplateletPatterns ==
  <<<<"a", "s", "p", "i", "r", "i", "n">>,
    <<"a", "s", "a">>,
    <<"a", "c", "e", "t", "y", "l", "s", "a", "l", "i", "c", "y", "l", "i", "c">>,
    <<"c", "l", "o", "p", "i", "d", "o", "g", "r", "e", "l">>,
    <<"p", "l", "a", "v", "i", "x">>,
    <<"t", "i", "c", "a", "g", "r", "e", "l", "o", "r">>,
    <<"b", "r", "i", "l", "i", "n", "t", "a">>,
    <<"p", "r", "a", "s", "u", "g", "r", "e", "l">>,
    <<"e", "f", "f", "i", "e", "n", "t">>,
    <<"d", "i", "p", "y", "r", "i", "d", "a", "m", "o", "l", "e">>,
    <<"a", "g", "g", "r", "e", "n", "o", "x">>,
    <<"t", "i", "c", "l", "o", "p", "i", "d", "i", "n", "e">>,
    <<"t", "i", "c", "l", "i", "d">>,
    <<"c", "a", "n", "g", "r", "e", "l", "o", "r">>,
    <<"k", "e", "n", "g", "r", "e", "a", "l">>,
    <<"v", "o", "r", "a", "p", "a", "x", "a", "r">>,
    <<"z", "o", "n", "t", "i", "v", "i", "t", "y">>>>

\* MEDICATION_PATTERNS, in declaration order (the order .items() yields).
MEDICATION_PATTERNS ==
  <<[med_type |-> "DOAC", patterns |-> DOACPatterns],
    [med_type |-> "Warfarin", patterns |-> WarfarinPatterns],
    [med_type |-> "Heparin_LMWH", patterns |-> Heparin_LMWHPatterns],
    [med_type |-> "Antiplatelet", patterns |-> AntiplateletPatterns]>>

\* str.lower() and str.upper(), character by character.
UpperCase == <<"A", "B", "C", "D", "E", "F", "G", "H", "I", "J", "K", "L", "M",
               "N", "O", "P", "Q", "R", "S", "T", "U", "V", "W", "X", "Y", "Z">>
LowerCase == <<"a", "b", "c", "d", "e", "f", "g", "h", "i", "j", "k", "l", "m",
               "n", "o", "p", "q", "r", "s", "t", "u", "v", "w", "x", "y", "z">>
LowerChar(c) ==
  IF \E i \in 1..26 : UpperCase[i] = c
  THEN LowerCase[CHOOSE i \in 1..26 : UpperCase[i] = c] ELSE c
UpperChar(c) ==
  IF \E i \in 1..26 : LowerCase[i] = c
  THEN UpperCase[CHOOSE i \in 1..26 : LowerCase[i] = c] ELSE c
Lower(text) == [i \in 1..Len(text) |-> LowerChar(text[i])]
Upper(text) == [i \in 1..Len(text) |-> UpperChar(text[i])]
Capitalised(text) ==
  [i \in 1..Len(text) |-> IF i = 1 THEN UpperChar(text[i]) ELSE text[i]]

\* `pattern in text`
Contains(pattern, text) ==
  \E k \in 0..(Len(text) - Len(pattern)) :
    \A j \in 1..Len(pattern) : text[k + j] = pattern[j]

\* med_name: None, or a text.
NoMedName == [isNone |-> TRUE, text |-> <<>>]
MedName(text) == [isNone |-> FALSE, text |-> text]

\* Lines 58-61: the first table entry one of whose patterns is in the text.
RECURSIVE ClassifyLoop(_, _)
ClassifyLoop(text, i) ==
  IF i > Len(MEDICATION_PATTERNS) THEN "Other"
  ELSE IF \E p \in Range(MEDICATION_PATTERNS[i].patterns) : Contains(p, text)
  THEN MEDICATION_PATTERNS[i].med_type
  ELSE ClassifyLoop(text, i + 1)

\* Mutant of classify_medication: the text is not lowered before the search.
classify_medication_case_sensitive(med_name) ==
  IF med_name.isNone \/ med_name.text = <<>> THEN "Other"
  ELSE ClassifyLoop(med_name.text, 1)

classify_medication(med_name) ==
  IF med_name.isNone \/ med_name.text = <<>> THEN "Other"
  ELSE ClassifyLoop(Lower(med_name.text), 1)

\* ------------------------------------------------------ medication texts
EliquisDose == <<"E", "l", "i", "q", "u", "i", "s", " ", "5", "m", "g">>
Coumadin == <<"C", "o", "u", "m", "a", "d", "i", "n">>
Tylenol == <<"T", "y", "l", "e", "n", "o", "l">>
NasalSpray == <<"N", "a", "s", "a", "l", " ", "s", "p", "r", "a", "y">>
WarfarinThenEliquis == <<"w", "a", "r", "f", "a", "r", "i", "n", ",", " ",
  "w", "a", "s", " ", "o", "n", " ", "E", "l", "i", "q", "u", "i", "s">>
AspirinWithHeparin == <<"A", "s", "p", "i", "r", "i", "n", " ", "8", "1", "m",
  "g", " ", "+", " ", "h", "e", "p", "a", "r", "i", "n", " ", "d", "r", "i",
  "p">>
Metoprolol == <<"m", "e", "t", "o", "p", "r", "o", "l", "o", "l", " ", "2",
  "5", "m", "g">>
Dose == <<" ", "5", "m", "g">>

AllPatterns ==
  UNION {Range(MEDICATION_PATTERNS[i].patterns) : i \in 1..Len(MEDICATION_PATTERNS)}

\* The names classify_medication is asked about: None, "", every pattern as
\* it is, in capitals, and capitalised with a dose after it; the texts of
\* the scenarios; texts that hold patterns of two categories; a text that
\* holds a pattern inside another word; texts that hold none.
MedNames ==
  {NoMedName, MedName(<<>>)}
  \cup {MedName(p) : p \in AllPatterns}
  \cup {MedName(Upper(p)) : p \in AllPatterns}
  \cup {MedName(Capitalised(p) \o Dose) : p \in AllPatterns}
  \cup {MedName(t) : t \in {EliquisDose, Coumadin, Tylenol, NasalSpray,
                            WarfarinThenEliquis, AspirinWithHeparin, Metoprolol}}

ClassifyMedication ==
  /\ result.op = "call" /\ result.fn = "classify_medication"
  /\ result' = [op |-> "classify_medication", med_name |-> result.med_name,
                value |-> classify_medication(result.med_name)]
  /\ UNCHANGED <<globals, features, loads, web, lists>>

\* ---------------------------------------------------- diagnosis mappings
\* DIAGNOSIS_PATTERNS, in declaration order.
DIAGNOSIS_PATTERNS ==
  <<[category |-> "asthma", patterns |->
       <<<<"a", "s", "t", "h", "m", "a">>,
         <<"r", "e", "a", "c", "t", "i", "v", "e", " ", "a", "i", "r", "w", "a", "y">>,
         <<"b", "r", "o", "n", "c", "h", "o", "s", "p", "a", "s", "m">>>>],
    [category |-> "anxiety", patterns |->
       <<<<"a", "n", "x", "i", "e", "t", "y">>,
         <<"p", "a", "n", "i", "c">>,
         <<"h", "y", "p", "e", "r", "v", "e", "n", "t", "i", "l", "a", "t", "i", "o", "n", " ", "s", "y", "n", "d", "r", "o", "m", "e">>,
         <<"g", "e", "n", "e", "r", "a", "l", "i", "z", "e", "d", " ", "a", "n", "x", "i", "e", "t", "y">>,
         <<"p", "a", "n", "i", "c", " ", "d", "i", "s", "o", "r", "d", "e", "r">>,
         <<"g", "a", "d">>>>],
    [category |-> "copd", patterns |->
       <<<<"c", "o", "p", "d">>,
         <<"c", "h", "r", "o", "n", "i", "c", " ", "o", "b", "s", "t", "r", "u", "c", "t", "i", "v", "e">>,
         <<"e", "m", "p", "h", "y", "s", "e", "m", "a">>,
         <<"c", "h", "r", "o", "n", "i", "c", " ", "b", "r", "o", "n", "c", "h", "i", "t", "i", "s">>,
         <<"o", "b", "s", "t", "r", "u", "c", "t", "i", "v", "e", " ", "l", "u", "n", "g", " ", "d", "i", "s", "e", "a", "s", "e">>>>],
    [category |-> "chf", patterns |->
       <<<<"h", "e", "a", "r", "t", " ", "f", "a", "i", "l", "u", "r", "e">>,
         <<"c", "h", "f">>,
         <<"c", "o", "n", "g", "e", "s", "t", "i", "v", "e", " ", "h", "e", "a", "r", "t">>,
         <<"c", "a", "r", "d", "i", "o", "m", "y", "o", "p", "a", "t", "h", "y">>,
         <<"s", "y", "s", "t", "o", "l", "i", "c", " ", "d", "y", "s", "f", "u", "n", "c", "t", "i", "o", "n">>,
         <<"d", "i", "a", "s", "t", "o", "l", "i", "c", " ", "d", "y", "s", "f", "u", "n", "c", "t", "i", "o", "n">>,
         <<"h", "f", "r", "e", "f">>,
         <<"h", "f", "p", "e", "f">>,
         <<"l", "e", "f", "t", " ", "v", "e", "n", "t", "r", "i", "c", "u", "l", "a", "r", " ", "f", "a", "i", "l", "u", "r", "e">>,
         <<"r", "i", "g", "h", "t", " ", "h", "e", "a", "r", "t", " ", "f", "a", "i", "l", "u", "r", "e">>>>],
    [category |-> "pneumonia", patterns |->
       <<<<"p", "n", "e", "u", "m", "o", "n", "i", "a">>,
         <<"p", "n", "e", "u", "m", "o", "n", "i", "t", "i", "s">>,
         <<"l", "o", "w", "e", "r", " ", "r", "e", "s", "p", "i", "r", "a", "t", "o", "r", "y", " ", "i", "n", "f", "e", "c", "t", "i", "o", "n">>,
         <<"c", "o", "m", "m", "u", "n", "i", "t", "y", " ", "a", "c", "q", "u", "i", "r", "e", "d", " ", "p", "n", "e", "u", "m", "o", "n", "i", "a">>,
         <<"c", "a", "p">>,
         <<"h", "a", "p">>,
         <<"a", "s", "p", "i", "r", "a", "t", "i", "o", "n", " ", "p", "n", "e", "u", "m", "o", "n", "i", "a">>>>]>>

\* DIAGNOSIS_ICD10_PREFIXES, in declaration order.
DIAGNOSIS_ICD10_PREFIXES ==
  <<[category |-> "asthma", prefixes |->
       <<<<"J", "4", "5">>>>],
    [category |-> "anxiety", prefixes |->
       <<<<"F", "4", "0">>,
         <<"F", "4", "1">>>>],
    [category |-> "copd", prefixes |->
       <<<<"J", "4", "4">>,
         <<"J", "4", "3">>>>],
    [category |-> "chf", prefixes |->
       <<<<"I", "5", "0">>,
         <<"I", "1", "1", ".", "0">>,
         <<"I", "1", "3", ".", "0">>,
         <<"I", "1", "3", ".", "2">>>>],
    [category |-> "pneumonia", prefixes |->
       <<<<"J", "1", "2">>,
         <<"J", "1", "3">>,
         <<"J", "1", "4">>,
         <<"J", "1", "5">>,
         <<"J", "1", "6">>,
         <<"J", "1", "7">>,
         <<"J", "1", "8">>>>]>>

\* str.startswith
StartsWith(text, prefix) ==
  /\ Len(prefix) <= Len(text)
  /\ \A j \in 1..Len(prefix) : text[j] = prefix[j]

\* `if text:` for an argument that is None or a text.
Given(arg) == ~arg.isNone /\ arg.text # <<>>

\* Lines 128-130: the first entry one of whose prefixes the code starts with.
RECURSIVE DiagnosisCodeLoop(_, _)
DiagnosisCodeLoop(code_upper, i) ==
  IF i > Len(DIAGNOSIS_ICD10_PREFIXES) THEN NoText
  ELSE IF \E p \in Range(DIAGNOSIS_ICD10_PREFIXES[i].prefixes) :
            StartsWith(code_upper, p)
  THEN Text(DIAGNOSIS_ICD10_PREFIXES[i].category)
  ELSE DiagnosisCodeLoop(code_upper, i + 1)

\* Lines 135-138: the first entry one of whose patterns is in the display.
RECURSIVE DiagnosisTextLoop(_, _)
DiagnosisTextLoop(display_lower, i) ==
  IF i > Len(DIAGNOSIS_PATTERNS) THEN NoText
  ELSE IF \E p \in Range(DIAGNOSIS_PATTERNS[i].patterns) :
            Contains(p, display_lower)
  THEN Text(DIAGNOSIS_PATTERNS[i].category)
  ELSE DiagnosisTextLoop(display_lower, i + 1)

DiagnosisByCode(code) ==
  IF Given(code) THEN DiagnosisCodeLoop(Upper(code.text), 1) ELSE NoText

DiagnosisByText(display) ==
  IF Given(display) THEN DiagnosisTextLoop(Lower(display.text), 1) ELSE NoText

\* Mutant of classify_diagnosis: the display text is tried first.
classify_diagnosis_text_first(display, code) ==
  IF ~DiagnosisByText(display).isNone THEN DiagnosisByText(display)
  ELSE DiagnosisByCode(code)

classify_diagnosis(display, code) ==
  IF ~DiagnosisByCode(code).isNone THEN DiagnosisByCode(code)
  ELSE DiagnosisByText(display)

\* -------------------------------------------------------- LOINC mappings
\* LOINC codes are compared whole; a code is one string.
\* VITAL_SIGNS_LOINC, in declaration order.
VITAL_SIGNS_LOINC ==
  <<[type |-> "hr", loinc_codes |-> <<"8867-4">>],
    [type |-> "spo2", loinc_codes |-> <<"2708-6", "59408-5">>],
    [type |-> "rr", loinc_codes |-> <<"9279-1">>],
    [type |-> "sbp", loinc_codes |-> <<"8480-6">>],
    [type |-> "dbp", loinc_codes |-> <<"8462-4">>],
    [type |-> "temp", loinc_codes |-> <<"8310-5", "8331-1">>]>>

\* LAB_LOINC, in declaration order.
LAB_LOINC ==
  <<[type |-> "inr", loinc_codes |-> <<"6301-6", "34714-6", "46418-0">>],
    [type |-> "ddimer", loinc_codes |-> <<"48066-5", "48065-7", "48067-3", "3246-6", "48058-2">>],
    [type |-> "troponin", loinc_codes |-> <<"6598-7", "10839-9", "49563-0", "89579-7">>],
    [type |-> "bnp", loinc_codes |-> <<"30934-4", "33762-6">>],
    [type |-> "creatinine", loinc_codes |-> <<"2160-0", "38483-4">>]>>

\* Lines 205-216: the any(...) tests of match_vital_type, in order.
VitalTextTests ==
  <<[type |-> "hr", patterns |->
       <<<<"h", "e", "a", "r", "t", " ", "r", "a", "t", "e">>,
         <<"p", "u", "l", "s", "e">>,
         <<"h", "r">>>>],
    [type |-> "spo2", patterns |->
       <<<<"o", "x", "y", "g", "e", "n", " ", "s", "a", "t", "u", "r", "a", "t", "i", "o", "n">>,
         <<"s", "p", "o", "2">>,
         <<"o", "2", " ", "s", "a", "t">>,
         <<"p", "u", "l", "s", "e", " ", "o", "x">>>>],
    [type |-> "rr", patterns |->
       <<<<"r", "e", "s", "p", "i", "r", "a", "t", "o", "r", "y", " ", "r", "a", "t", "e">>,
         <<"r", "e", "s", "p", " ", "r", "a", "t", "e">>,
         <<"r", "r">>,
         <<"b", "r", "e", "a", "t", "h", "i", "n", "g", " ", "r", "a", "t", "e">>>>],
    [type |-> "sbp", patterns |->
       <<<<"s", "y", "s", "t", "o", "l", "i", "c">>,
         <<"s", "b", "p">>>>],
    [type |-> "dbp", patterns |->
       <<<<"d", "i", "a", "s", "t", "o", "l", "i", "c">>,
         <<"d", "b", "p">>>>],
    [type |-> "temp", patterns |->
       <<<<"t", "e", "m", "p", "e", "r", "a", "t", "u", "r", "e">>,
         <<"t", "e", "m", "p">>>>]>>

\* Lines 235-244: the substring tests of match_lab_type, in order.
LabTextTests ==
  <<[type |-> "inr", patterns |->
       <<<<"i", "n", "r">>>>],
    [type |-> "ddimer", patterns |->
       <<<<"d", "-", "d", "i", "m", "e", "r">>,
         <<"d", "d", "i", "m", "e", "r">>,
         <<"d", " ", "d", "i", "m", "e", "r">>>>],
    [type |-> "troponin", patterns |->
       <<<<"t", "r", "o", "p", "o", "n", "i", "n">>>>],
    [type |-> "bnp", patterns |->
       <<<<"b", "n", "p">>,
         <<"n", "a", "t", "r", "i", "u", "r", "e", "t", "i", "c">>>>],
    [type |-> "creatinine", patterns |->
       <<<<"c", "r", "e", "a", "t", "i", "n", "i", "n", "e">>>>]>>

\* The loop over a LOINC table: the first entry that holds one of the codes.
RECURSIVE LoincLoop(_, _, _)
LoincLoop(loinc_table, codes, i) ==
  IF i > Len(loinc_table) THEN NoText
  ELSE IF \E k \in 1..Len(codes) : codes[k] \in Range(loinc_table[i].loinc_codes)
  THEN Text(loinc_table[i].type)
  ELSE LoincLoop(loinc_table, codes, i + 1)

\* The chain of if statements over the display text.
RECURSIVE TextChain(_, _, _)
TextChain(tests, display_lower, i) ==
  IF i > Len(tests) THEN NoText
  ELSE IF \E p \in Range(tests[i].patterns) : Contains(p, display_lower)
  THEN Text(tests[i].type)
  ELSE TextChain(tests, display_lower, i + 1)

\* display.lower() if display else ""
DisplayLower(display) == IF Given(display) THEN Lower(display.text) ELSE <<>>

match_vital_type(codes, display) ==
  IF ~LoincLoop(VITAL_SIGNS_LOINC, codes, 1).isNone
  THEN LoincLoop(VITAL_SIGNS_LOINC, codes, 1)
  ELSE TextChain(VitalTextTests, DisplayLower(display), 1)

match_lab_type(codes, display) ==
  IF ~LoincLoop(LAB_LOINC, codes, 1).isNone
  THEN LoincLoop(LAB_LOINC, codes, 1)
  ELSE TextChain(LabTextTests, DisplayLower(display), 1)

\* ------------------------------------------------- diagnoses, observations
Pneumonia == <<"P", "n", "e", "u", "m", "o", "n", "i", "a", ",", " ", "u", "n", "s", "p", "e", "c", "i", "f", "i", "e", "d", " ", "o", "r", "g", "a", "n", "i", "s", "m">>
AsthmaCode == <<"J", "4", "5", ".", "9", "0", "9">>
SystolicPressure == <<"S", "y", "s", "t", "o", "l", "i", "c", " ", "b", "l", "o", "o", "d", " ", "p", "r", "e", "s", "s", "u", "r", "e">>
Troponin == <<"T", "r", "o", "p", "o", "n", "i", "n", " ", "I">>

\* Displays and codes of conditions: None, "", a display of each category,
\* displays that hold patterns of two categories, and displays of none;
\* codes in both letter cases, with and without a category.
DiagnosisDisplays ==
  {NoMedName} \cup
    {MedName(<<>>),
     MedName(Pneumonia),
     MedName(<<"A", "s", "t", "h", "m", "a", " ", "e", "x", "a", "c", "e", "r", "b", "a", "t", "i", "o", "n">>),
     MedName(<<"C", "O", "P", "D", " ", "w", "i", "t", "h", " ", "a", "c", "u", "t", "e", " ", "b", "r", "o", "n", "c", "h", "i", "t", "i", "s">>),
     MedName(<<"P", "a", "n", "i", "c", " ", "a", "t", "t", "a", "c", "k">>),
     MedName(<<"C", "o", "n", "g", "e", "s", "t", "i", "v", "e", " ", "h", "e", "a", "r", "t", " ", "f", "a", "i", "l", "u", "r", "e">>),
     MedName(<<"A", "n", "x", "i", "e", "t", "y", " ", "w", "i", "t", "h", " ", "a", "s", "t", "h", "m", "a">>),
     MedName(<<"A", "s", "p", "i", "r", "a", "t", "i", "o", "n", " ", "p", "n", "e", "u", "m", "o", "n", "i", "a", " ", "i", "n", " ", "C", "H", "F">>),
     MedName(<<"E", "s", "s", "e", "n", "t", "i", "a", "l", " ", "h", "y", "p", "e", "r", "t", "e", "n", "s", "i", "o", "n">>),
     MedName(<<"T", "y", "p", "e", " ", "2", " ", "d", "i", "a", "b", "e", "t", "e", "s">>)}

DiagnosisCodes ==
  {NoMedName} \cup
    {MedName(<<>>),
     MedName(AsthmaCode),
     MedName(<<"j", "1", "8", ".", "9">>),
     MedName(<<"F", "4", "1", ".", "1">>),
     MedName(<<"J", "4", "4", ".", "1">>),
     MedName(<<"I", "5", "0", ".", "9">>),
     MedName(<<"I", "1", "1", ".", "0">>),
     MedName(<<"I", "1", "1", ".", "9">>),
     MedName(<<"E", "1", "1", ".", "9">>),
     MedName(<<"I", "1", "0">>)}

\* Code lists and displays of observations.
ObservationCodeLists ==
  {<<>>, <<"8867-4">>, <<"59408-5">>, <<"8480-6", "8462-4">>,
   <<"8462-4", "8867-4">>, <<"1234-5">>, <<"1234-5", "8310-5">>,
   <<"48065-7">>, <<"2160-0", "6301-6">>, <<"33762-6", "89579-7">>}

ObservationDisplays ==
  {NoMedName} \cup
    {MedName(<<>>),
     MedName(<<"H", "e", "a", "r", "t", " ", "r", "a", "t", "e">>),
     MedName(SystolicPressure),
     MedName(<<"D", "i", "a", "s", "t", "o", "l", "i", "c", " ", "b", "l", "o", "o", "d", " ", "p", "r", "e", "s", "s", "u", "r", "e">>),
     MedName(<<"P", "u", "l", "s", "e", " ", "o", "x", "i", "m", "e", "t", "r", "y">>),
     MedName(<<"S", "p", "O", "2">>),
     MedName(<<"R", "e", "s", "p", "i", "r", "a", "t", "o", "r", "y", " ", "r", "a", "t", "e">>),
     MedName(<<"B", "o", "d", "y", " ", "t", "e", "m", "p", "e", "r", "a", "t", "u", "r", "e">>),
     MedName(<<"B", "o", "d", "y", " ", "w", "e", "i", "g", "h", "t">>),
     MedName(Troponin),
     MedName(<<"D", "-", "d", "i", "m", "e", "r">>),
     MedName(<<"I", "N", "R">>),
     MedName(<<"N", "T", "-", "p", "r", "o", "B", "N", "P", " ", "n", "a", "t", "r", "i", "u", "r", "e", "t", "i", "c", " ", "p", "e", "p", "t", "i", "d", "e">>),
     MedName(<<"C", "r", "e", "a", "t", "i", "n", "i", "n", "e">>),
     MedName(<<"H", "e", "m", "o", "g", "l", "o", "b", "i", "n">>)}

ClassifyDiagnosis ==
  /\ result.op = "call" /\ result.fn = "classify_diagnosis"
  /\ result' = [op |-> "classify_diagnosis", display |-> result.display,
                code |-> result.code,
                value |-> classify_diagnosis(result.display, result.code)]
  /\ UNCHANGED <<globals, features, loads, web, lists>>

MatchVitalType ==
  /\ result.op = "call" /\ result.fn = "match_vital_type"
  /\ result' = [op |-> "match_vital_type", codes |-> result.codes,
                display |-> result.display,
                value |-> match_vital_type(result.codes, result.display)]
  /\ UNCHANGED <<globals, features, loads, web, lists>>

MatchLabType ==
  /\ result.op = "call" /\ result.fn = "match_lab_type"
  /\ result' = [op |-> "match_lab_type", codes |-> result.codes,
                display |-> result.display,
                value |-> match_lab_type(result.codes, result.display)]
  /\ UNCHANGED <<globals, features, loads, web, lists>>

MappingCalls ==
  {[op |-> "call", fn |-> "classify_medication", med_name |-> n] : n \in MedNames}
  \cup {[op |-> "call", fn |-> "classify_diagnosis", display |-> d, code |-> c] :
          d \in DiagnosisDisplays, c \in DiagnosisCodes}
  \cup {[op |-> "call", fn |-> f, codes |-> cs, display |-> d] :
          f \in {"match_vital_type", "match_lab_type"},
          cs \in ObservationCodeLists, d \in ObservationDisplays}

InitMappings ==
  /\ SetGlobalsInit
  /\ features = EmptyDict
  /\ result \in MappingCalls
  /\ loads = 0
  /\ WebIdle

NextMappings ==
  \/ ClassifyMedication
  \/ ClassifyDiagnosis
  \/ MatchVitalType
  \/ MatchLabType

SpecMappings == InitMappings /\ [][NextMappings]_vars

\* ================================================== the rules of serve_model
\* The pure rules of serve_model.py, each applied to a drawn argument.

\* Rows handed to DummyModel.predict_proba: a frame of one row over the
\* three columns the rule reads, every entry a float or NaN (as Coerce
\* leaves them), and frames that lack columns.
RuleColumns == <<"age", "triage_hr", "triage_o2sat">>
Ages == {Num(0), Num(40), Num(50), Num(51), Num(60), Num(65), Num(90), NaN}
HeartRates == {Num(0), Num(80), Num(100), Num(101), Num(115), Num(130), Num(160), NaN}
Saturations == {Num(0), Num(1), Num(80), Num(89), Num(92), Num(94), Num(95), Num(98), NaN}
RuleFrames ==
  {[columns |-> RuleColumns, values |-> <<a, h, s>>] :
     a \in Ages, h \in HeartRates, s \in Saturations}
  \cup {[columns |-> <<>>, values |-> <<>>],
        [columns |-> <<"triage_o2sat">>, values |-> <<Num(89)>>]}

RuleCalls == {[op |-> "call", fn |-> "predict_proba", X |-> X] : X \in RuleFrames}

\* probabilities.append([1 - prob_pe, prob_pe])
DummyModelPredictProba ==
  /\ Calling("predict_proba")
  /\ result' = [op |-> "predict_proba", X |-> result.X,
                value |-> <<Unit - DummyModel_predict_proba(result.X),
                            DummyModel_predict_proba(result.X)>>]
  /\ UNCHANGED <<globals, features, loads, web, lists>>

\* Feature maps handed to compute_derived_features.  A key may be left out
\* of the map: Left marks it, and Sparse drops the marked keys.
Left == [t |-> "left", v |-> 0, d |-> 1]
Sparse(m) == [k \in {x \in DOMAIN m : m[x] # Left} |-> m[k]]

\* The heart-rate and history keys vary, the rest of a triage record is
\* fixed; then the PERC keys vary.
HeartInputs ==
  {Sparse("age" :> Num(65) @@ "triage_hr" :> hr @@ "hr_mean" :> hm
          @@ "prior_pe_diagnosis" :> pe @@ "prior_dvt_diagnosis" :> dvt
          @@ "triage_sbp" :> Num(120) @@ "triage_o2sat" :> Num(96)) :
     hr \in {Left, None, NaN, Num(0), Num(100), Num(101), Str},
     hm \in {Left, None, Num(90), Num(120)},
     pe \in {Left, Num(1)},
     dvt \in {Left, None, Num(0), Num(1)}}
PercInputs ==
  {Sparse("age" :> age @@ "triage_hr" :> hr @@ "triage_o2sat" :> o2
          @@ "spo2_min" :> smin @@ "cc_leg_pain_swelling" :> leg
          @@ "triage_sbp" :> Num(0)) :
     age \in {Left, None, Num(0), Num(49), Num(50)},
     hr \in {Num(80), Num(101)},
     o2 \in {Left, None, Num(94), Num(95)},
     smin \in {Left, Num(90), Num(97)},
     leg \in {Left, None, Num(0), Num(1), Num(2), NaN}}
DerivedInputs == HeartInputs \cup PercInputs

\* enhanced = compute_derived_features(features): the argument is copied and
\* the copy is written; a str among the values it compares raises TypeError.
ComputeDerivedFeatures ==
  /\ Calling("compute_derived_features")
  /\ result' = [op |-> "compute_derived_features",
                exc |-> IF derived_raises(features) THEN "TypeError" ELSE "",
                value |-> IF derived_raises(features) THEN EmptyDict
                          ELSE compute_derived_features(features)]
  /\ UNCHANGED <<globals, features, loads, web, lists>>

InitRules ==
  /\ SetGlobalsInit
  /\ \/ /\ result \in RuleCalls
        /\ features = EmptyDict
     \/ /\ result = [op |-> "call", fn |-> "compute_derived_features"]
        /\ features \in DerivedInputs
  /\ loads = 0
  /\ WebIdle

NextRules ==
  \/ DummyModelPredictProba
  \/ ComputeDerivedFeatures

SpecRules == InitRules /\ [][NextRules]_vars

\* ================================================================= main.py
\* The OAuth round trip, the session store and the FHIR branch of
\* POST /api/pe-assessment.

StaleAfter == 180
DefaultExpiresIn == 3600

\* The most sessions the store is let to hold.
MaxSessions == 1

\* A session_id: None, "", or f"session_{state}".
NoSessionId == [kind |-> "none", of |-> NoState]
EmptySessionId == [kind |-> "empty", of |-> NoState]
SessionId(state) == [kind |-> "id", of |-> state]

Times0 == {TickStep * k : k \in 1..(MaxTicks + 1)}
States == {NoState, EmptyState, Forged} \cup {Issued(t) : t \in Times0}

\* The states a /callback at time t may carry: None, "", a text no launch
\* made, and what a launch up to then made.
StatesBy(t) == {s \in States : s.t <= t}

\* The outcomes of the token request: a token response, a body that is not
\* JSON, a status of 400 or more, a transport error, and a response whose
\* fields make the code after the request raise.
Exchanges == {"ok", "json_error", "http_error", "httpx_error", "exception"}

\* GET /launch at time t (lines 129-231).  A launch in progress for less
\* than StaleAfter seconds is answered 409; a stale one is cleared first.
launch(ap, t, config_ok) ==
  LET busy == ap.in_progress /\ ~ap.started_at.isNone /\ ap.started_at.val # 0
      cleared == IF busy THEN IdleAuth ELSE ap
  IN IF busy /\ t - ap.started_at.val < StaleAfter
     THEN [auth |-> ap, status_code |-> 409, state |-> NoState]
     ELSE IF ~config_ok
     THEN [auth |-> cleared, status_code |-> 500, state |-> NoState]
     ELSE [auth |-> [in_progress |-> TRUE, started_at |-> Number(t),
                     state |-> Issued(t)],
           status_code |-> 307, state |-> Issued(t)]

\* GET /callback at time t (lines 324-658).  Every exit clears
\* auth_progress; a token response stores the session under
\* f"session_{state}" and sets the cookie.  An HTTPException raised inside
\* the try block is caught by `except Exception` and becomes a 500.
callback(store, ap, t, has_code, state, has_error, exchange, expires_in) ==
  LET failed(code) == [sessions |-> store, auth |-> IdleAuth, status_code |-> code,
                       session_id |-> NoSessionId, cookie |-> NoSessionId]
  IN IF has_error THEN failed(400)
     ELSE IF ~has_code \/ state \in {NoState, EmptyState} THEN failed(400)
     ELSE IF exchange = "httpx_error" THEN failed(400)
     ELSE IF exchange # "ok" THEN failed(500)
     ELSE [sessions |-> Put(store, SessionId(state), [expires_at |-> t + expires_in]),
           auth |-> IdleAuth, status_code |-> 302,
           session_id |-> SessionId(state), cookie |-> SessionId(state)]

\* Mutant of get_session_or_error: the expiry is not looked at.
get_session_or_error_no_expiry(store, t, session_id) ==
  IF session_id.kind # "id" \/ session_id \notin DOMAIN store THEN 401 ELSE 0

\* get_session_or_error (lines 957-969): the status it raises, or 0.
get_session_or_error(store, t, session_id) ==
  IF session_id.kind # "id" \/ session_id \notin DOMAIN store THEN 401
  ELSE IF t > store[session_id].expires_at THEN 401
  ELSE 0

\* ------------------------------------------------------- the web's inputs
\* Two charts: one with the five triage vitals, one with no observation.
ChartPatient == Patient(GenderStr("female"), BirthYmd(1960, 3, 15))
TriageVitals ==
  <<WithQuantity(HeartRate, Num(85)),
    WithQuantity(Coded(LOINC, "9279-1"), Num(18)),
    WithQuantity(Coded(LOINC, "59408-5"), Num(96)),
    WithQuantity(Coded(LOINC, "8480-6"), Num(120)),
    WithQuantity(Coded(LOINC, "8462-4"), Num(80))>>
Charts ==
  {[patient |-> ChartPatient, observations |-> os, today |-> Date(2026, 11, 3)] :
     os \in {TriageVitals, <<>>}}

\* The globals after the startup load found no artifact (lines 79-98).
Started ==
  load_pe_model(Unloaded, [exists |-> FALSE, loadable |-> FALSE,
                           data |-> BaseArtifact]).g

\* --------------------------------------------------------- the web's steps
\* What the handler does for an accepted session (lines 722-790): fetch and
\* map the chart, then predict.
assess_chart(g, chart, patient_fetch, observations_fetch, p) ==
  LET exc == map_raises(chart.patient, chart.observations, chart.today,
                        patient_fetch, observations_fetch)
      patient_features ==
        map_fhir_to_features(chart.patient, chart.observations, chart.today)
  IN [exc |-> exc,
      out |-> IF exc # "" THEN [exc |-> "", value |-> 0]
              ELSE predict_pe_probability(g, patient_features, p)]

\* assess_chart over the charts, fetch outcomes and globals of this
\* specification, worked out once.
AssessedCharts ==
  {[g |-> g, chart |-> chart, patient_fetch |-> pf, observations_fetch |-> obf,
    work |-> assess_chart(g, chart, pf, obf, CHOOSE p \in RealProbs : TRUE)] :
     g \in {Started}, chart \in Charts, pf \in FetchOutcomes, obf \in FetchOutcomes}

\* The FHIR branch of pe_assessment (lines 727-821): the session, the
\* fetch and mapping, the prediction, the interpretation.  HTTPException
\* passes through; any other exception becomes a 500.
pe_assessment_fhir(g, store, t, session_id, chart, patient_fetch, observations_fetch) ==
  LET denied == get_session_or_error(store, t, session_id)
      work == (CHOOSE r \in AssessedCharts :
                 /\ r.patient_fetch = patient_fetch
                 /\ r.observations_fetch = observations_fetch
                 /\ r.chart = chart
                 /\ r.g = g).work
      answer(code, detail, fetched, predicted) ==
        [op |-> "pe_assessment", data_source |-> "fhir", session_id |-> session_id,
         status_code |-> code, detail |-> detail,
         fetched |-> fetched, predicted |-> predicted,
         decision |-> IF code = 200
                      THEN interpret_pe_result(g, work.out.value).decision ELSE ""]
  IN IF denied # 0 THEN answer(denied, "Not authenticated", FALSE, FALSE)
     ELSE IF work.exc # "" THEN answer(500, work.exc, TRUE, FALSE)
     ELSE IF work.out.exc # "" THEN answer(500, work.out.exc, TRUE, TRUE)
     ELSE answer(200, "", TRUE, TRUE)

Tick ==
  /\ now < TickStep * (MaxTicks + 1)
  /\ now' = now + TickStep
  /\ UNCHANGED <<globals, features, loads, result, sessions, auth_progress, lists>>

Launch ==
  /\ \E config_ok \in BOOLEAN :
       LET r == launch(auth_progress, now, config_ok)
       IN /\ auth_progress' = r.auth
          /\ result' = [op |-> "launch", status_code |-> r.status_code,
                        state |-> r.state]
  /\ UNCHANGED <<globals, features, loads, sessions, now, lists>>

\* The handler reads the token response only after it has accepted the
\* query, and expires_in only from a token response.
Callback ==
  /\ \E has_error \in BOOLEAN, has_code \in BOOLEAN, state \in StatesBy(now) :
       LET early == has_error \/ ~has_code \/ state \in {NoState, EmptyState}
       IN \E exchange \in IF early THEN {"ok"} ELSE Exchanges :
          \E expires_in \in IF early \/ exchange # "ok" THEN {DefaultExpiresIn}
                           ELSE {TickStep, DefaultExpiresIn} :
            LET r == callback(sessions, auth_progress, now, has_code, state,
                              has_error, exchange, expires_in)
            IN /\ Cardinality(DOMAIN r.sessions) <= MaxSessions
               /\ sessions' = r.sessions
               /\ auth_progress' = r.auth
               /\ result' = [op |-> "callback", status_code |-> r.status_code,
                             state |-> state, pending |-> auth_progress,
                             session_id |-> r.session_id, cookie |-> r.cookie]
  /\ UNCHANGED <<globals, features, loads, now, lists>>

\* POST /api/auth/reset
AuthReset ==
  /\ auth_progress' = IdleAuth
  /\ result' = [op |-> "auth_reset"]
  /\ UNCHANGED <<globals, features, loads, sessions, now, lists>>

\* The chart is fetched only for an accepted session, the observations only
\* after the patient.
PeAssessmentFhir ==
  /\ \E session_id \in {NoSessionId, EmptySessionId} \cup {SessionId(s) : s \in States} :
       LET refused == get_session_or_error(sessions, now, session_id) # 0
       IN \E pf \in IF refused THEN {"ok"} ELSE FetchOutcomes :
          \E obf \in IF refused \/ pf # "ok" THEN {"ok"} ELSE FetchOutcomes :
          \E chart \in IF refused \/ pf # "ok" \/ obf # "ok"
                       THEN {CHOOSE c \in Charts : TRUE} ELSE Charts :
            result' = pe_assessment_fhir(G, sessions, now, session_id, chart, pf, obf)
  /\ UNCHANGED <<globals, features, loads, web, lists>>

\* After the startup event (lines 79-98) has loaded the model.
InitWeb ==
  /\ _MODEL = Started.MODEL
  /\ _SCALER = Started.SCALER
  /\ _FEATURE_COLS = Started.FEATURE_COLS
  /\ _THRESHOLD = Started.THRESHOLD
  /\ _FEATURE_METADATA = Started.FEATURE_METADATA
  /\ _SCALER_MEAN = Started.SCALER_MEAN
  /\ _SCALER_SCALE = Started.SCALER_SCALE
  /\ features = EmptyDict
  /\ result = [op |-> "startup"]
  /\ loads = 1
  /\ WebIdle

NextWeb ==
  \/ Tick
  \/ Launch
  \/ Callback
  \/ AuthReset
  \/ PeAssessmentFhir

SpecWeb == InitWeb /\ [][NextWeb]_vars

\* ================================================= the lists handed out
\* Callers of get_required_features, get_missingness_features,
\* get_all_features and get_model_info receive list objects and may write
\* to them.  `result.handed` names the objects the last call returned.

\* The most writes callers make to the lists they were handed.
MaxEdits == 2

\* validate_required_features and apply_missingness_features read the
\* module's lists as they stand when they are called.
RECURSIVE ValidateLoopOver(_, _, _, _)
ValidateLoopOver(required, f, missing, i) ==
  IF i > Len(required) THEN missing
  ELSE ValidateLoopOver(required, f,
         IF is_missing(Get(f, required[i])) THEN Append(missing, required[i])
         ELSE missing,
         i + 1)

validate_required_features_over(required, f) ==
  LET missing == ValidateLoopOver(required, f, <<>>, 1)
  IN [is_valid |-> Len(missing) = 0, missing |-> missing]

apply_missingness_features_over(optional, f) ==
  [k \in DOMAIN f \cup {missing_col(x) : x \in Range(optional)}
           \cup {x \in Range(optional) : is_missing(Get(f, x))} |->
     IF \E x \in Range(optional) : missing_col(x) = k
     THEN (IF is_missing(Get(f, CHOOSE x \in Range(optional) : missing_col(x) = k))
           THEN Num(1) ELSE Num(0))
     ELSE IF k \in Range(optional) /\ is_missing(Get(f, k)) THEN Num(0)
     ELSE f[k]]

\* list.copy()
GetRequiredFeaturesList ==
  /\ lists' = [lists EXCEPT !.copy = lists.REQUIRED_FEATURES]
  /\ result' = [op |-> "get_required_features", handed |-> {"copy"}]
  /\ UNCHANGED <<globals, features, loads, web>>

GetMissingnessFeatures ==
  /\ lists' = [lists EXCEPT !.copy = lists.MISSINGNESS_FEATURES]
  /\ result' = [op |-> "get_missingness_features", handed |-> {"copy"}]
  /\ UNCHANGED <<globals, features, loads, web>>

\* (_FEATURE_COLS or []).copy()
GetAllFeatures ==
  /\ lists' = [lists EXCEPT !.copy = IF _FEATURE_COLS.isNone THEN <<>>
                                     ELSE _FEATURE_COLS.val]
  /\ result' = [op |-> "get_all_features", handed |-> {"copy"}]
  /\ UNCHANGED <<globals, features, loads, web>>

\* get_model_info(): "required_features": REQUIRED_FEATURES and
\* "missingness_features": MISSINGNESS_FEATURES are the lists themselves.
GetModelInfoLists ==
  /\ result' = [op |-> "get_model_info",
                handed |-> {"REQUIRED_FEATURES", "MISSINGNESS_FEATURES"}]
  /\ UNCHANGED <<globals, features, loads, web, lists>>

\* The list a write leaves: append("injected") or pop().
Edited(list, edit) ==
  IF edit = "append" THEN Append(list, "injected")
  ELSE SubSeq(list, 1, Len(list) - 1)

\* A caller writes to a list it was handed.  A write to the
\* REQUIRED_FEATURES object is a write to _FEATURE_COLS where that is the
\* same object.
CallerWrites ==
  /\ result.op \in {"get_required_features", "get_missingness_features",
                    "get_all_features", "get_model_info", "caller_writes"}
  /\ lists.edits < MaxEdits
  /\ \E ref \in result.handed, edit \in {"append", "pop"} :
       /\ edit = "pop" => Len(lists[ref]) > 0
       /\ lists' = [lists EXCEPT ![ref] = Edited(@, edit), !.edits = @ + 1]
       /\ _FEATURE_COLS' =
            IF ref = "REQUIRED_FEATURES" /\ lists.cols_shared
            THEN Cols(Edited(lists[ref], edit)) ELSE _FEATURE_COLS
  /\ result' = [op |-> "caller_writes", handed |-> result.handed]
  /\ UNCHANGED <<_MODEL, _SCALER, _THRESHOLD, _FEATURE_METADATA, _SCALER_MEAN,
                 _SCALER_SCALE, features, loads, web>>

ValidateWithLists ==
  /\ result' = [op |-> "validate_required_features", handed |-> {},
                value |-> validate_required_features_over(lists.REQUIRED_FEATURES,
                                                          features)]
  /\ UNCHANGED <<globals, features, loads, web, lists>>

ApplyMissingnessWithLists ==
  /\ result' = [op |-> "apply_missingness_features", handed |-> {},
                value |-> apply_missingness_features_over(lists.MISSINGNESS_FEATURES,
                                                          features)]
  /\ UNCHANGED <<globals, features, loads, web, lists>>

\* After load_pe_model(): with no artifact (the fallback, whose column list
\* is the REQUIRED_FEATURES object) or with a trained artifact (its own
\* column list).
InitLists ==
  /\ \E disk \in {[exists |-> FALSE, loadable |-> FALSE, data |-> BaseArtifact],
                  [exists |-> TRUE, loadable |-> TRUE, data |-> BaseArtifact]} :
       LET g == load_pe_model(Unloaded, disk).g
       IN /\ _MODEL = g.MODEL
          /\ _SCALER = g.SCALER
          /\ _FEATURE_COLS = g.FEATURE_COLS
          /\ _THRESHOLD = g.THRESHOLD
          /\ _FEATURE_METADATA = g.FEATURE_METADATA
          /\ _SCALER_MEAN = g.SCALER_MEAN
          /\ _SCALER_SCALE = g.SCALER_SCALE
          /\ lists = [ListsAtImport EXCEPT !.cols_shared = (g.MODEL = "DummyModel")]
  /\ features \in {ScenarioA, MissingFeaturesTest, Put(ScenarioA, "wbc", Num(7))}
  /\ result = [op |-> "load_pe_model", handed |-> {}]
  /\ loads = 1
  /\ sessions = <<>> /\ auth_progress = IdleAuth /\ now = TickStep

NextLists ==
  \/ GetRequiredFeaturesList
  \/ GetMissingnessFeatures
  \/ GetAllFeatures
  \/ GetModelInfoLists
  \/ CallerWrites
  \/ ValidateWithLists
  \/ ApplyMissingnessWithLists

SpecLists == InitLists /\ [][NextLists]_vars

\* ================================================================ claims
\* The required features that are missing from a dict: no key, None or NaN.
MissingRequired(f) ==
  {x \in Range(REQUIRED_FEATURES) : x \notin DOMAIN f \/ f[x].t \in {"none", "nan"}}

\* The place of a required feature in the schema.
SchemaIndex(x) == CHOOSE i \in 1..Len(REQUIRED_FEATURES) : REQUIRED_FEATURES[i] = x

\* A list holds exactly the set S, each member once, in schema order.
ListsInSchemaOrder(list, S) ==
  /\ Range(list) = S
  /\ Len(list) = Cardinality(S)
  /\ \A i, j \in 1..Len(list) : i < j => SchemaIndex(list[i]) < SchemaIndex(list[j])

\* C3: validate_required_features is total over the six required features:
\* whichever subset S of them is missing (None; also NaN or no key), it
\* returns (S is empty, the members of S in schema order), and the
\* caller's dict is the same after the call.
C3_ValidateTotal ==
  [][result'.op = "validate_required_features" =>
       /\ features' = features
       /\ result'.value.is_valid = (MissingRequired(features) = {})
       /\ ListsInSchemaOrder(result'.value.missing, MissingRequired(features))]_vars

\* C3 witness: two non-adjacent required features are None and the call
\* returned (False, ["age", "triage_o2sat"]).
C3_Witness ==
  /\ result.op = "validate_required_features"
  /\ Get(features, "age") = None /\ "age" \in DOMAIN features
  /\ Get(features, "triage_o2sat") = None /\ "triage_o2sat" \in DOMAIN features
  /\ result.value = [is_valid |-> FALSE, missing |-> <<"age", "triage_o2sat">>]

\* An optional feature is missing from a dict: no key, None or NaN.
OptionalMissing(f, x) == x \notin DOMAIN f \/ f[x].t \in {"none", "nan"}

\* C4: apply_missingness_features gives every missing optional feature
\* (None, NaN or no key) the indicator 1 and the value 0, every present one
\* the indicator 0 and its own value; every other key of the input keeps
\* its value; the caller's dict is not written.
C4_MissingnessPolicy ==
  [][result'.op = "apply_missingness_features" =>
       /\ features' = features
       /\ result'.arg = features
       /\ \A x \in OptionalFeatures :
            /\ missing_col(x) \in DOMAIN result'.value
            /\ x \in DOMAIN result'.value
            /\ IF OptionalMissing(features, x)
               THEN /\ result'.value[missing_col(x)] = Num(1)
                    /\ result'.value[x] = Num(0)
               ELSE /\ result'.value[missing_col(x)] = Num(0)
                    /\ result'.value[x] = features[x]
       /\ \A k \in DOMAIN features \ (OptionalFeatures \cup MissingCols) :
            k \in DOMAIN result'.value /\ result'.value[k] = features[k]]_vars

\* C4 witness: one call that met a NaN optional feature, an absent one and a
\* present one whose value it passed through.
C4_Witness ==
  /\ result.op = "apply_missingness_features"
  /\ "ph" \in DOMAIN features /\ features["ph"] = NaN
  /\ result.value["ph_missing"] = Num(1) /\ result.value["ph"] = Num(0)
  /\ "wbc" \notin DOMAIN features /\ result.value["wbc_missing"] = Num(1)
  /\ result.value["age"] = Num(70)

\* C5 as stated: a second application of the policy, to the map the first
\* returned, yields the indicators of the first: none changes on the second
\* pass.
C5_SameIndicators ==
  result.op = "apply_missingness_features_again" =>
    \A x \in OptionalFeatures :
      result.value[missing_col(x)] = result.arg[missing_col(x)]

\* C1 as stated: for every probability p and every threshold t the loaded
\* artifact stores, the decision is "rule_out" iff p < t, and p = t gives
\* "continue_workup".
C1_StrictAgainstStoredThreshold ==
  (result.op = "interpret_pe_result" /\ loads > 0 /\ ~_THRESHOLD.isNone) =>
    /\ result.value.decision \in {"rule_out", "continue_workup"}
    /\ (result.value.decision = "rule_out") = (result.probability < _THRESHOLD.val)

RealGlobals ==
  {g \in {load_pe_model(Unloaded, d).g : d \in DiskStates} : g.MODEL = "Real"}

\* C6 as stated: with the fallback classifier in use, every decision result
\* and the model metadata carry a reduced-fidelity marker that is absent
\* with a trained artifact in use: no response of the fallback is a
\* response a trained artifact gives.
C6_FallbackMarked ==
  _MODEL = "DummyModel" =>
    /\ result.op = "get_model_info" =>
         \A g \in RealGlobals : result.value # get_model_info(g)
    /\ result.op = "interpret_pe_result" =>
         \A g \in RealGlobals :
           result.value # interpret_pe_result(g, result.probability)

\* C7 as stated: load_pe_model never raises, and after any call of it a
\* classifier, a feature-column list and a threshold are set, so that
\* predict_pe_probability does not fail with "Model not loaded".
C7_LoadedAfterLoad ==
  loads > 0 =>
    /\ _MODEL # "None" /\ ~_FEATURE_COLS.isNone /\ ~_THRESHOLD.isNone
    /\ result.op = "load_pe_model" => result.exc = ""
    /\ result.op = "predict_pe_probability" => result.exc # "RuntimeError"

\* The calls that serve requests.
ServingCalls ==
  {"validate_required_features", "prepare_feature_vector",
   "predict_pe_probability", "interpret_pe_result", "get_model_info"}

\* C8: once load_pe_model has returned, no call of validate_required_features,
\* prepare_feature_vector, predict_pe_probability, interpret_pe_result or
\* get_model_info, in any order, changes the classifier, the scaler, its
\* statistics, the feature-column list, the threshold or the metadata.
C8_ArtifactNotMutated ==
  [][(loads > 0 /\ result'.op \in ServingCalls) => globals' = globals]_vars

\* C8 witness: after a load of a trained artifact with a scaler, a
\* prediction has been served.
C8_Witness ==
  /\ loads > 0
  /\ result.op = "predict_pe_probability" /\ result.exc = ""
  /\ _MODEL = "Real" /\ ~_SCALER.isNone /\ ~_SCALER_MEAN.isNone

\* The scaling statistics, when both are set, fit the feature columns.
StatisticsFit ==
  ScalingBranch(G) = "raw_statistics" =>
    ScaledWidth(Len(_FEATURE_COLS.val), _SCALER_MEAN.val, _SCALER_SCALE.val)
      = Len(_FEATURE_COLS.val)

\* Entry i of the returned row when the value before scaling is x.
ScaledAs(x, i) ==
  CASE result.value.scaling = "raw_statistics" ->
         ScaleEntry(x, At(_SCALER_MEAN.val, i), At(_SCALER_SCALE.val, i))
    [] result.value.scaling = "transform" -> Transformed(x)
    [] OTHER -> x

\* C9 as stated (where the statistics fit the columns): the call returns
\* one row with one entry per feature column, in the list's order, and a
\* raw column whose value is absent, None or not convertible to float is 0
\* before scaling; no such value makes the call fail.
C9_RowPerColumn ==
  (result.op = "prepare_feature_vector" /\ loads > 0 /\ StatisticsFit) =>
    /\ result.exc = ""
    /\ result.value.columns = _FEATURE_COLS.val
    /\ Len(result.value.values) = Len(_FEATURE_COLS.val)
    /\ \A i \in 1..Len(_FEATURE_COLS.val) :
         LET col == _FEATURE_COLS.val[i] IN
           (col \notin DerivedKeys \cup MissingCols \cup OptionalFeatures
            /\ (col \notin DOMAIN features \/ features[col].t \in {"none", "str"}))
             => result.value.values[i] = ScaledAs(Num(0), i)

\* C10 as stated (for values the derived-feature engine accepts): scaling
\* never makes the call fail, and it takes the raw statistics when both are
\* set, else the scaler's transform, unscaled when that fails, else nothing.
C10_ScalingNeverFails ==
  (result.op = "prepare_feature_vector" /\ loads > 0 /\ ~derived_raises(features)) =>
    /\ result.exc = ""
    /\ result.value.scaling =
         IF ~_SCALER_MEAN.isNone /\ ~_SCALER_SCALE.isNone THEN "raw_statistics"
         ELSE IF _SCALER.isNone THEN "unscaled"
         ELSE IF _SCALER.transform = "ok" THEN "transform" ELSE "transform_failed"

\* C11: in every result of interpret_pe_result, rule_out has confidence
\* "high"; continue_workup has the "Moderate" explanation and confidence
\* "moderate" for p < 0.25, the "Elevated" explanation and confidence "high"
\* for 0.25 <= p < 0.50, the "High" explanation and confidence "high" for
\* p >= 0.50; and the result carries the fixed disclaimer string.
C11_BandsAndDisclaimer ==
  result.op = "interpret_pe_result" =>
    LET r == result.value
        p == result.probability
    IN /\ r.decision \in {"rule_out", "continue_workup"}
       /\ r.decision = "rule_out" => r.confidence = "high" /\ r.explanation = "Low"
       /\ (r.decision = "continue_workup" /\ p < 25000) =>
            r.explanation = "Moderate" /\ r.confidence = "moderate"
       /\ (r.decision = "continue_workup" /\ p >= 25000 /\ p < 50000) =>
            r.explanation = "Elevated" /\ r.confidence = "high"
       /\ (r.decision = "continue_workup" /\ p >= 50000) =>
            r.explanation = "High" /\ r.confidence = "high"
       /\ r.disclaimer =
            "This is a decision support tool, not a diagnostic test. Clinical judgment should always take precedence."

\* C11 witness: a probability of exactly 0.25 was interpreted as
\* continue_workup in the "Elevated" band.
C11_Witness ==
  /\ result.op = "interpret_pe_result"
  /\ result.probability = 25000
  /\ result.value.decision = "continue_workup"
  /\ result.value.explanation = "Elevated"

\* C12 as stated: with a classifier set, predict_pe_probability returns a
\* probability in [0, 1], and POST /api/pe-assessment answers 200 with a
\* probability in [0, 1] and a decision of rule_out or continue_workup, for
\* the dict that holds only age, gender, triage_hr, triage_o2sat and d_dimer
\* and for the dict that leaves only triage_rr out of the vitals.
C12_GracefulOnOmittedFeatures ==
  (_MODEL # "None" /\ features \in {MissingFeaturesTest, DirectFeaturesTest}) =>
    /\ result.op = "predict_pe_probability" =>
         result.exc = "" /\ result.value \in 0..Unit
    /\ result.op = "pe_assessment" =>
         /\ result.status_code = 200
         /\ result.probability \in 0..Unit
         /\ result.decision \in {"rule_out", "continue_workup"}

\* C13 as stated: after load_pe_model, the threshold in every result of
\* interpret_pe_result and in get_model_info is 0.08.
C13_ThresholdIs008 ==
  (loads > 0 /\ result.op \in {"interpret_pe_result", "get_model_info"}) =>
    result.value.threshold = 8000

\* C14 as stated: get_required_features returns a list of 25 features that
\* holds age, gender, d_dimer, triage_hr and triage_o2sat.
C14_TwentyFiveRequired ==
  result.op = "get_required_features" =>
    /\ Len(result.value) = 25
    /\ {"age", "gender", "d_dimer", "triage_hr", "triage_o2sat"}
         \subseteq Range(result.value)

\* The 25 names of the canonical feature schema.
CanonicalFeatures ==
  {"age", "gender", "bmi", "height_cm", "weight_lbs",
   "triage_hr", "triage_rr", "triage_o2sat", "triage_temp", "triage_sbp",
   "triage_dbp",
   "d_dimer", "troponin_t", "ntprobnp", "creatinine", "hemoglobin", "wbc",
   "platelet", "sodium", "potassium", "bun", "glucose", "lactate", "po2", "pco2"}

\* An observation carries one of the codes as a LOINC coding.
Carries(obs, codes) ==
  /\ obs.coding.present
  /\ \E c \in Range(obs.coding.val) : c.system = LOINC /\ c.code \in Range(codes)

\* No observation of the list carries one of the codes with a value that
\* can be extracted.
NoUsableData(observations, codes) ==
  \A i \in 1..Len(observations) :
    Carries(observations[i], codes) =>
      extract_observation_value(observations[i]).value = None

\* C15: every feature map that map_fhir_to_features returns has exactly the
\* 25 canonical feature names as keys, and a feature for which the patient
\* and the observations hold no usable data has the value None.
C15_AllKeysPresent ==
  (result.op = "map_fhir_to_features" /\ result.exc = "") =>
    /\ DOMAIN result.value = CanonicalFeatures
    /\ Cardinality(DOMAIN result.value) = 25
    /\ \A k \in DOMAIN FeatureLoinc :
         NoUsableData(result.observations, FeatureLoinc[k]) => result.value[k] = None
    /\ NoUsableData(result.observations, HeightCodes) =>
         result.value["height_cm"] = None /\ result.value["bmi"] = None
    /\ NoUsableData(result.observations, WeightCodes) =>
         result.value["weight_lbs"] = None /\ result.value["bmi"] = None
    /\ result.patient.gender.kind = "absent" => result.value["gender"] = None
    /\ result.patient.birthDate.kind \in {"absent", "invalid"} =>
         result.value["age"] = None

\* C15 witness: a call returned a map with the heart rate it found and
\* None for the d-dimer, the height and the gender it did not find.
C15_Witness ==
  /\ result.op = "map_fhir_to_features" /\ result.exc = ""
  /\ result.patient.gender.kind = "absent"
  /\ result.value["triage_hr"] = Num(85)
  /\ result.value["d_dimer"] = None /\ result.value["height_cm"] = None
  /\ result.value["gender"] = None

\* The places of the list whose observation carries one of the codes.
CarryingPlaces == 
  {i \in 1..Len(result.observations) :
     Carries(result.observations[i], result.loinc_codes)}

\* The least member of a non-empty set of numbers.
Least(S) == CHOOSE i \in S : \A j \in S : i <= j

DecidingPlaces ==
  {i \in CarryingPlaces :
     \/ extract_observation_value(result.observations[i]).exc # ""
     \/ extract_observation_value(result.observations[i]).value # None}

RECURSIVE FirstMatchingComponent(_, _, _)
FirstMatchingComponent(cs, codes, i) ==
  IF i > Len(cs) THEN None
  ELSE IF cs[i].code \in codes /\ cs[i].valueQuantity.present
  THEN cs[i].valueQuantity.val
  ELSE FirstMatchingComponent(cs, codes, i + 1)

OwnCodes(o) ==
  IF o.coding.present
  THEN {c.code : c \in {x \in Range(o.coding.val) : x.system = LOINC}}
  ELSE {}

\* C17 as stated: extract_observation_value returns the value of a direct
\* quantity; else the integer, the decimal or the numeric string as a
\* number; for a composite observation the value of the first component
\* matching the requested code; and None for a non-numeric string or no
\* value key.
C17_ValueByShape ==
  result.op = "extract_observation_value" =>
    LET o == result.observation IN
      /\ o.valueQuantity.present => result.value = o.valueQuantity.val
      /\ (~o.valueQuantity.present /\ o.valueInteger.present
          /\ o.valueInteger.val.t = "num") => result.value = o.valueInteger.val
      /\ (~o.valueQuantity.present /\ ~o.valueInteger.present
          /\ o.valueDecimal.present /\ o.valueDecimal.val.t = "num") =>
           result.value = o.valueDecimal.val
      /\ (~o.valueQuantity.present /\ ~o.valueInteger.present
          /\ ~o.valueDecimal.present /\ o.valueString.present
          /\ o.valueString.val.t = "numstr") =>
           result.value = Num(o.valueString.val.v)
      /\ (~o.valueQuantity.present /\ ~o.valueInteger.present
          /\ ~o.valueDecimal.present /\ ~o.valueString.present
          /\ o.component.present) =>
           result.value = FirstMatchingComponent(o.component.val, OwnCodes(o), 1)
      /\ (~o.valueQuantity.present /\ ~o.valueInteger.present
          /\ ~o.valueDecimal.present /\ ~o.component.present
          /\ (~o.valueString.present \/ o.valueString.val.t = "str")) =>
           result.exc = "" /\ result.value = None

\* C18 as stated: extract_gender gives "M" for "male", "F" for "female",
\* "Other" for "other", None for every value outside this vocabulary and
\* for an absent gender, and nothing else.
C18_FixedVocabulary ==
  result.op = "extract_gender" =>
    /\ result.exc = ""
    /\ result.value \in {Text("M"), Text("F"), Text("Other"), NoText}
    /\ result.gender = GenderStr("male") => result.value = Text("M")
    /\ result.gender = GenderStr("female") => result.value = Text("F")
    /\ result.gender = GenderStr("other") => result.value = Text("Other")
    /\ (result.gender.kind # "str"
        \/ lower(result.gender.s) \notin {"male", "female", "other"}) =>
         result.value = NoText

\* The text is a date of the calendar written year-month-day.
ValidBirthDate(b) ==
  /\ b.kind = "ymd"
  /\ b.y >= 1 /\ b.y <= 9999 /\ b.m >= 1 /\ b.m <= 12 /\ b.d >= 1
  /\ b.d <= (IF b.m = 2
             THEN (IF (b.y % 4 = 0 /\ b.y % 100 # 0) \/ b.y % 400 = 0 THEN 29 ELSE 28)
             ELSE IF b.m \in {4, 6, 9, 11} THEN 30 ELSE 31)

\* C19: extract_age returns, for every valid YYYY-MM-DD birth date, the
\* current year minus the birth year, less one exactly when today's
\* (month, day) precedes the birth (month, day); and None, without raising,
\* when birthDate is absent or is no such date.
C19_IntegerYearAge ==
  result.op = "extract_age" =>
    LET b == result.birthDate
        t == result.today
        before_birthday == t.m < b.m \/ (t.m = b.m /\ t.d < b.d)
    IN IF ValidBirthDate(b)
       THEN result.value =
              Number(t.y - b.y - (IF before_birthday THEN 1 ELSE 0))
       ELSE result.value = NoNumber

\* C19 witness: on the 65th birthday the age is 65.
C19_Witness ==
  /\ result.op = "extract_age"
  /\ result.birthDate = BirthYmd(1960, 3, 15)
  /\ result.today = Date(2025, 3, 15)
  /\ result.value = Number(65)

\* A pattern is a substring of the text, letter case apart.
OccursIgnoringCase(pattern, text) ==
  \E k \in 0..(Len(text) - Len(pattern)) :
    \A j \in 1..Len(pattern) : LowerChar(text[k + j]) = LowerChar(pattern[j])

\* The table entries one of whose patterns occurs in a text.
MatchingEntries(text) ==
  {i \in 1..Len(MEDICATION_PATTERNS) :
     \E p \in Range(MEDICATION_PATTERNS[i].patterns) : OccursIgnoringCase(p, text)}

\* C20: classify_medication returns, for every medication text, the first
\* category in table order (DOAC, Warfarin, Heparin_LMWH, Antiplatelet) one
\* of whose patterns is a case-insensitive substring of the text, and
\* "Other" when none is or the text is empty; "Eliquis 5mg" is DOAC,
\* "Coumadin" is Warfarin and "Tylenol" is Other.
C20_FirstCategoryInTableOrder ==
  result.op = "classify_medication" =>
    LET n == result.med_name IN
      /\ (n.isNone \/ n.text = <<>> \/ MatchingEntries(n.text) = {}) =>
           result.value = "Other"
      /\ (~n.isNone /\ MatchingEntries(n.text) # {}) =>
           result.value = MEDICATION_PATTERNS[Least(MatchingEntries(n.text))].med_type
      /\ <<MEDICATION_PATTERNS[1].med_type, MEDICATION_PATTERNS[2].med_type,
           MEDICATION_PATTERNS[3].med_type, MEDICATION_PATTERNS[4].med_type>>
           = <<"DOAC", "Warfarin", "Heparin_LMWH", "Antiplatelet">>
      /\ n = MedName(EliquisDose) => result.value = "DOAC"
      /\ n = MedName(Coumadin) => result.value = "Warfarin"
      /\ n = MedName(Tylenol) => result.value = "Other"

\* C20 witness: a text that names warfarin before Eliquis is DOAC, the
\* earlier category of the table.
C20_Witness ==
  /\ result.op = "classify_medication"
  /\ result.med_name = MedName(WarfarinThenEliquis)
  /\ result.value = "DOAC"

\* The entries of a prefix table one of whose prefixes a code starts with,
\* letter case apart.
CodeEntries(code) ==
  IF code.isNone THEN {}
  ELSE {i \in 1..Len(DIAGNOSIS_ICD10_PREFIXES) :
          \E p \in Range(DIAGNOSIS_ICD10_PREFIXES[i].prefixes) :
            /\ Len(p) <= Len(code.text)
            /\ \A j \in 1..Len(p) : UpperChar(code.text[j]) = p[j]}

\* The entries of a pattern table one of whose patterns occurs in a display.
TextEntries(tests, display) ==
  IF display.isNone THEN {}
  ELSE {i \in 1..Len(tests) :
          \E p \in Range(tests[i].patterns) : OccursIgnoringCase(p, display.text)}

\* The entries of a LOINC table that hold one of the codes.
LoincEntries(loinc_table, codes) ==
  {i \in 1..Len(loinc_table) :
     Range(codes) \cap Range(loinc_table[i].loinc_codes) # {}}

\* The place a category has in a table's declaration order.
PlaceOf(loinc_table, type) ==
  CHOOSE i \in 1..Len(loinc_table) : loinc_table[i].type = type

\* The category that the codes decide or, with no code match, the category
\* first in the LOINC table's declaration order among those the display
\* matches, or None.
CodeBeforeText(loinc_table, tests, codes, display) ==
  IF LoincEntries(loinc_table, codes) # {}
  THEN Text(loinc_table[Least(LoincEntries(loinc_table, codes))].type)
  ELSE IF TextEntries(tests, display) # {}
  THEN Text(loinc_table[Least({PlaceOf(loinc_table, tests[i].type) :
                                 i \in TextEntries(tests, display)})].type)
  ELSE NoText

\* C21: in classify_diagnosis, match_vital_type and match_lab_type a code
\* match is tried before the free-text match: when a supplied code matches a
\* category's code table that category is returned whatever the display
\* says; the display decides, by the first matching category in declaration
\* order, only when no code matches; with neither match the result is None.
C21_CodeBeforeText ==
  /\ result.op = "classify_diagnosis" =>
       result.value =
         IF CodeEntries(result.code) # {}
         THEN Text(DIAGNOSIS_ICD10_PREFIXES[Least(CodeEntries(result.code))].category)
         ELSE IF TextEntries(DIAGNOSIS_PATTERNS, result.display) # {}
         THEN Text(DIAGNOSIS_PATTERNS[
                     Least(TextEntries(DIAGNOSIS_PATTERNS, result.display))].category)
         ELSE NoText
  /\ result.op = "match_vital_type" =>
       result.value =
         CodeBeforeText(VITAL_SIGNS_LOINC, VitalTextTests, result.codes, result.display)
  /\ result.op = "match_lab_type" =>
       result.value =
         CodeBeforeText(LAB_LOINC, LabTextTests, result.codes, result.display)

\* C21 witness: a condition coded J45.909 whose display names pneumonia is
\* classified by its code, as asthma.
C21_Witness ==
  /\ result.op = "classify_diagnosis"
  /\ result.code = MedName(AsthmaCode)
  /\ result.display = MedName(Pneumonia)
  /\ result.value = Text("asthma")

\* Two frames over the rule's columns that differ in one column only.
DifferOnlyIn(X, Y, name) ==
  /\ X.columns = RuleColumns /\ Y.columns = RuleColumns
  /\ \A i \in 1..Len(RuleColumns) :
       IF RuleColumns[i] = name
       THEN X.values[i].t = "num" /\ Y.values[i].t = "num"
       ELSE X.values[i] = Y.values[i]

\* C22: the fallback classifier's PE probability lies in [0.08, 0.85] for
\* every input, never decreases when age or heart rate increases, never
\* decreases when o2sat decreases, and the two class probabilities sum to 1.
C22_MonotonicRule ==
  result.op = "predict_proba" =>
    /\ 8000 <= result.value[2] /\ result.value[2] <= 85000
    /\ result.value[1] + result.value[2] = Unit
    /\ \A Y \in RuleFrames :
         /\ (DifferOnlyIn(result.X, Y, "age")
               /\ RowGet(Y, "age", 50).v >= RowGet(result.X, "age", 50).v)
              => DummyModel_predict_proba(Y) >= result.value[2]
         /\ (DifferOnlyIn(result.X, Y, "triage_hr")
               /\ RowGet(Y, "triage_hr", 80).v >= RowGet(result.X, "triage_hr", 80).v)
              => DummyModel_predict_proba(Y) >= result.value[2]
         /\ (DifferOnlyIn(result.X, Y, "triage_o2sat")
               /\ RowGet(Y, "triage_o2sat", 98).v <= RowGet(result.X, "triage_o2sat", 98).v)
              => DummyModel_predict_proba(Y) >= result.value[2]

\* A step in which the FHIR branch of pe_assessment answers.
AnswersAssessment ==
  /\ result'.op = "pe_assessment" /\ result'.data_source = "fhir"
  /\ result' # result
  /\ UNCHANGED web

\* The request's session_id names a stored session that has not expired.
LiveSession(id) ==
  /\ id.kind = "id"
  /\ id \in DOMAIN sessions
  /\ now <= sessions[id].expires_at

\* C23: POST /api/pe-assessment without directly provided features reaches
\* the record fetch and the prediction only if session_id names a stored
\* session that has not expired; with no session_id, an unknown session_id
\* or an expired session the request fails with 401 and neither a FHIR
\* fetch nor a prediction is performed.
C23_LiveSessionOrRefused ==
  [][AnswersAssessment =>
       /\ (result'.fetched \/ result'.predicted) => LiveSession(result'.session_id)
       /\ ~LiveSession(result'.session_id) =>
            /\ result'.status_code = 401
            /\ ~result'.fetched /\ ~result'.predicted]_vars

\* C23 witness: a request naming a session that is stored but has expired
\* was refused with 401.
C23_Witness ==
  /\ result.op = "pe_assessment"
  /\ result.session_id \in DOMAIN sessions
  /\ now > sessions[result.session_id].expires_at
  /\ result.status_code = 401 /\ ~result.fetched

\* C30: the state parameter of /callback protects against CSRF: a session is
\* created, and a session cookie set, only when the callback's state equals
\* the state issued by the /launch currently in progress; a callback whose
\* state no pending launch issued never creates a session; and every exit of
\* /callback leaves auth-in-progress cleared.
C30_StateChecked ==
  result.op = "callback" =>
    /\ (result.session_id # NoSessionId \/ result.cookie # NoSessionId) =>
         /\ result.pending.in_progress
         /\ result.state = result.pending.state
    /\ ~auth_progress.in_progress
    /\ auth_progress.state = NoState

\* compute_derived_features has returned `enhanced` for the map `features`.
Derived == result.op = "compute_derived_features" /\ result.exc = ""

\* A raw value is a number above, or below, a bound (None, NaN and a key
\* left out are neither).
Above(f, k, n) == k \in DOMAIN f /\ f[k].t = "num" /\ f[k].v > n * f[k].d
Below(f, k, n) == k \in DOMAIN f /\ f[k].t = "num" /\ f[k].v < n * f[k].d

\* A history flag is set: its value is there and is neither None nor 0.
IsSet(f, k) == k \in DOMAIN f /\ f[k] # None /\ f[k] # Num(0)

\* C24: compute_derived_features sets the tachycardia flag to 1 iff the
\* triage heart rate or the monitored mean heart rate exceeds 100, sets
\* wells_score to the flag + 3 if the prior-PE flag is set + 3 if the
\* prior-DVT flag is set (one of 0, 1, 3, 4, 6, 7), and wells_high_risk to 1
\* iff wells_score >= 4.
C24_WellsScore ==
  Derived =>
    LET e == result.value
        tachy == IF Above(features, "triage_hr", 100) \/ Above(features, "hr_mean", 100)
                 THEN 1 ELSE 0
        score == tachy + (IF IsSet(features, "prior_pe_diagnosis") THEN 3 ELSE 0)
                       + (IF IsSet(features, "prior_dvt_diagnosis") THEN 3 ELSE 0)
    IN /\ e["wells_tachycardia"] = Num(tachy)
       /\ e["wells_score"] = Num(score)
       /\ score \in {0, 1, 3, 4, 6, 7}
       /\ e["wells_high_risk"] = Num(IF score >= 4 THEN 1 ELSE 0)

\* C24 witness: a triage heart rate of 100 with a monitored mean of 120 and
\* a prior PE gives the tachycardia flag, a score of 4 and high risk.
C24_Witness ==
  /\ Derived
  /\ "triage_hr" \in DOMAIN features /\ features["triage_hr"] = Num(100)
  /\ "hr_mean" \in DOMAIN features /\ features["hr_mean"] = Num(120)
  /\ result.value["wells_score"] = Num(4)
  /\ result.value["wells_high_risk"] = Num(1)

\* C25: for every input feature map perc_score is the sum of four binary
\* components (age >= 50, tachycardia, hypoxia: triage o2sat or monitored
\* minimum SpO2 below 95, the leg-swelling complaint flag), so it lies in
\* 0..4, and perc_negative = 1 iff perc_score = 0.
C25_PercScore ==
  Derived =>
    LET e == result.value
        binary == {Num(0), Num(1)}
        age_50 == IF is_missing(Get(features, "age")) \/ Above(features, "age", 49)
                  THEN 1 ELSE 0
        hypoxia == IF Below(features, "triage_o2sat", 95) \/ Below(features, "spo2_min", 95)
                   THEN 1 ELSE 0
    IN /\ e["perc_age_50"] = Num(age_50)
       /\ e["perc_hr_100"] = e["wells_tachycardia"] /\ e["perc_hr_100"] \in binary
       /\ e["perc_hypoxia"] = Num(hypoxia)
       /\ e["perc_leg_swelling"] \in binary
       /\ e["perc_score"] = Num(e["perc_age_50"].v + e["perc_hr_100"].v
                                + e["perc_hypoxia"].v + e["perc_leg_swelling"].v)
       /\ e["perc_score"].v \in 0..4
       /\ e["perc_negative"] = Num(IF e["perc_score"] = Num(0) THEN 1 ELSE 0)

\* The features that are raw in a map: its keys that are not derived ones.
RawKeys(f) == DOMAIN f \ DerivedKeys

\* C26: the numeric defaults of the score computation never leak into the
\* raw feature values: compute_derived_features leaves its input map
\* unmodified and returns every raw feature with the value it had on input
\* (None stays None), only adding derived features, all present and not
\* None; a map that fails required-feature validation before the call
\* still fails it after.
C26_DefaultsDoNotLeak ==
  [][(result'.op = "compute_derived_features" /\ result'.exc = "") =>
       LET e == result'.value
       IN /\ features' = features
          /\ DOMAIN e = RawKeys(features) \cup DerivedKeys
          /\ \A k \in RawKeys(features) : e[k] = features[k]
          /\ \A k \in DerivedKeys : e[k] # None
          /\ ~validate_required_features(features).is_valid =>
               ~validate_required_features(e).is_valid]_vars

\* C26 witness: a map whose age is None comes back with age None, with
\* perc_age_50 computed from the default 50, and still fails validation.
C26_Witness ==
  /\ Derived
  /\ "age" \in DOMAIN features /\ features["age"] = None
  /\ result.value["age"] = None
  /\ result.value["perc_age_50"] = Num(1)
  /\ ~validate_required_features(result.value).is_valid

\* C27: after any sequence of load_pe_model calls, whenever the fallback
\* classifier is the active model no scaling statistics of a previously or
\* partially loaded artifact remain in effect: prepare_feature_vector hands
\* the values to the fallback classifier unscaled, and the scaling
\* statistics always have one entry per active feature column.
C27_NoStaleStatistics ==
  /\ _MODEL = "DummyModel" =>
       /\ _SCALER_MEAN.isNone /\ _SCALER_SCALE.isNone
       /\ (result.op = "prepare_feature_vector" /\ result.exc = "") =>
            result.value.scaling = "unscaled"
  /\ (~_FEATURE_COLS.isNone /\ ~_SCALER_MEAN.isNone) =>
       Len(_SCALER_MEAN.val) = Len(_FEATURE_COLS.val)
  /\ (~_FEATURE_COLS.isNone /\ ~_SCALER_SCALE.isNone) =>
       Len(_SCALER_SCALE.val) = Len(_FEATURE_COLS.val)

\* The lab keys of the mapper's output (fhir_mapping.py lines 383-397).
LabKeys ==
  {"d_dimer", "troponin_t", "ntprobnp", "creatinine", "hemoglobin", "wbc",
   "platelet", "sodium", "potassium", "bun", "glucose", "lactate", "po2", "pco2"}

\* The optional model feature a lab key of the mapper stands for.
ModelFeature(k) ==
  CASE k = "troponin_t" -> "troponin"
    [] k = "ntprobnp" -> "bnp"
    [] OTHER -> k

\* C28: for every lab feature the mapper outputs with a value that is not
\* None, the pipeline does not report the lab as missing: after
\* apply_missingness_features on the mapper's output the missingness
\* indicator of the corresponding model feature is 0 and the model feature
\* holds the mapped value.
C28_MappedLabsNotMissing ==
  (result.op = "map_fhir_to_features" /\ result.exc = "") =>
    LET enhanced == apply_missingness_features(result.value)
    IN \A k \in LabKeys :
         result.value[k] # None =>
           /\ ModelFeature(k) \in OptionalFeatures
           /\ enhanced[missing_col(ModelFeature(k))] = Num(0)
           /\ enhanced[ModelFeature(k)] = result.value[k]

\* C29: no list handed out by get_required_features,
\* get_missingness_features, get_all_features or get_model_info shares
\* mutable state with the module's feature configuration: after a caller
\* writes to a returned list, validate_required_features checks the same 6
\* required features, apply_missingness_features uses the same optional
\* features, and the active feature-column list is unchanged.
C29_NoSharedLists ==
  [][/\ result'.op = "caller_writes" =>
          /\ lists'.REQUIRED_FEATURES = lists.REQUIRED_FEATURES
          /\ lists'.MISSINGNESS_FEATURES = lists.MISSINGNESS_FEATURES
          /\ _FEATURE_COLS' = _FEATURE_COLS
     /\ result'.op = "validate_required_features" =>
          result'.value = validate_required_features(features)
     /\ result'.op = "apply_missingness_features" =>
          result'.value = apply_missingness_features(features)]_vars

====
